---- MODULE Spec2Model ----
(***************************************************************************)
(* Model of the Tradle trading journal core: the FIFO trade matcher        *)
(* (TradeCalculator.matchTrades / createTradeObject), the trade store with *)
(* order-ID deduplication (TradleApp.mergeTradesWithDatabase, load, save,  *)
(* clear, processFile) and the remote sync of the trade database           *)
(* (FirebaseSync.pushTradeDatabase / pullTradeDatabase).                   *)
(*                                                                         *)
(* Prices and money amounts are integers in cents, times are integers in   *)
(* milliseconds.  A missing (null / undefined / empty) scalar is 0 for     *)
(* numbers and "" for strings, which are exactly the values JavaScript     *)
(* treats as falsy; a fill price that is null, as opposed to the number 0, *)
(* is marked by fillPriceNull.  Amounts that the code divides are kept as  *)
(* exact fractions in lowest terms, so the rounding of the doubles the     *)
(* code computes with is not part of the model, except in the comparison   *)
(* of calculateTrade that decides on the multiplier.                       *)
(***************************************************************************)
EXTENDS Integers, Sequences, FiniteSets, TLC

VARIABLES
    \* ---- one run of TradeCalculator.matchTrades ----
    mOrders,        \* the `orders` argument
    validOrders,    \* the filtered and sorted list the loop walks
    mIdx,           \* index of the next order of validOrders to process
    positions,      \* positions[sym]: FIFO queue of open lots
    mTrades,        \* the `trades` array
    mPc,            \* "start" | "loop" | "done" | "calculated" | "summarized"
    mSummary,       \* the summary processOrders returns with the trades
    \* ---- the application (TradleApp, localStorage, Firebase) ----
    tradeDatabase,  \* this.tradeDatabase: [trades, orderIds]
    storage,        \* localStorage['tradle_trade_database']
    remote,         \* Firebase /tradeDatabase.json
    pf,             \* position and locals of a running processFile
    uploadStats,    \* result of the latest mergeTradesWithDatabase
    hist,           \* hist.file: the file merged last into the in-memory
                    \* database as it is now; hist.clear: how the clear of
                    \* the latest step, if it was one, was asked for and
                    \* answered (observation only)
    \* ---- the UIController ----
    ui              \* [tab, currentTrades, shared]: the active tab, the
                    \* trade list of the dashboard, and whether that list
                    \* is the very array of this.tradeDatabase.trades;
                    \* followed in SpecUi, the other specifications leave
                    \* the UI out and keep it as constructed

matchVars == <<mOrders, validOrders, mIdx, positions, mTrades, mPc, mSummary>>
appVars   == <<tradeDatabase, storage, remote, pf, uploadStats, hist, ui>>
idleVars  == <<mOrders, validOrders, mIdx, positions, mTrades, mPc, mSummary, ui>>
vars      == <<mOrders, validOrders, mIdx, positions, mTrades, mPc, mSummary,
               tradeDatabase, storage, remote, pf, uploadStats, hist, ui>>

----------------------------------------------------------------------------
(* Bounds *)

\* longest generated order list given to the matcher
MaxOrders == 3
\* largest quantity of a generated order
MaxQty == 2
\* number of distinct placing times of generated orders
MaxTime == 2

----------------------------------------------------------------------------
(* Generic helpers *)

Min(a, b) == IF a < b THEN a ELSE b

Abs(a) == IF a < 0 THEN 0 - a ELSE a

Range(s) == {s[i] : i \in 1..Len(s)}

RECURSIVE SeqSum(_)
SeqSum(s) == IF s = <<>> THEN 0 ELSE Head(s) + SeqSum(Tail(s))

RECURSIVE Gcd(_, _)
Gcd(a, b) == IF b = 0 THEN a ELSE Gcd(b, a % b)

\* the number n / d with d > 0, in lowest terms
Frac(n, d) ==
    LET g == Gcd(Abs(n), d)
    IN [num |-> n \div g, den |-> d \div g]

----------------------------------------------------------------------------
(* Orders *)

Symbols == {"CME_MINI:ES1!", "CME_MINI:NQ1!"}

\* String.prototype.toLowerCase on the spellings of a side that occur
LowerSide(s) ==
    CASE s \in {"Buy", "BUY", "buy"}    -> "buy"
      [] s \in {"Sell", "SELL", "sell"} -> "sell"
      [] OTHER                          -> s

\* symbol.replace(/^[A-Z0-9_]+:/, '')
StripPrefix(sym) ==
    CASE sym = "CME_MINI:ES1!"  -> "ES1!"
      [] sym = "CME_MINI:NQ1!"  -> "NQ1!"
      [] sym = "B2PRIME:SPXUSD" -> "SPXUSD"
      [] sym = "NYSE:XYZ"       -> "XYZ"
      [] OTHER                  -> sym

\* An order as the CSV parser hands it over.  originalQty is only set on the
\* copies the matcher makes (0 = not set); commission is the parsed number of
\* the commission cell in cents (0 = blank or zero).  margin is the amount of
\* the margin cell in cents (0 = blank), leverage the text of the leverage cell.
Order(id, sym, side, type, qty, price, time, status) ==
    [orderId |-> id, symbol |-> sym, side |-> side, type |-> type,
     qty |-> qty, fillPrice |-> price, placingTime |-> time,
     status |-> status, originalQty |-> 0,
     commission |-> 0, fillPriceNull |-> FALSE,
     margin |-> 0, leverage |-> ""]

\* the same order with values in its margin and leverage cells
WithMargin(order, cents, leverage) ==
    [order EXCEPT !.margin = cents, !.leverage = leverage]

\* the same order with a value in its commission cell
WithCommission(order, cents) == [order EXCEPT !.commission = cents]

\* the same order with an empty fill price cell: parsePrice returns null
WithoutPrice(order) == [order EXCEPT !.fillPrice = 0, !.fillPriceNull = TRUE]

\* a trade without a nested entry or exit order carries this in its place
NoOrder == Order("", "", "", "", 0, 0, 0, "")

----------------------------------------------------------------------------
(* TradeCalculator.createTradeObject *)

\* The id `trade_${entry.orderId}_${exit.orderId}`.  A string is kept as the
\* sequence of its pieces between underscores, which is what the code later
\* recovers with split('_').
Pieces(orderId) ==
    CASE orderId = "ibkr_1000_1" -> <<"ibkr", "1000", "1">>
      [] orderId = "ibkr_2000_2" -> <<"ibkr", "2000", "2">>
      [] OTHER                -> <<orderId>>

TradeIdOf(entryId, exitId) == <<"trade">> \o Pieces(entryId) \o Pieces(exitId)

SideOfExit(entryOrder, exitOrder) ==
    IF LowerSide(exitOrder.side) = "buy" THEN "LONG" ELSE "SHORT"

SideOf(entryOrder, exitOrder) ==
    IF LowerSide(entryOrder.side) = "buy" THEN "LONG" ELSE "SHORT"

\* parseMargin: every character but digits and the point is dropped, the
\* sign with them
parseMargin(m) == Abs(m)

createTradeObject(order1, order2) ==
    [id           |-> TradeIdOf(order1.orderId, order2.orderId),
     entryOrder   |-> order1,
     exitOrder    |-> order2,
     entryPrice   |-> order1.fillPrice,
     exitPrice    |-> order2.fillPrice,
     quantity     |-> order1.qty,
     entryTime    |-> order1.placingTime,
     exitTime     |-> order2.placingTime,
     contract     |-> StripPrefix(order1.symbol),
     side         |-> SideOf(order1, order2),
     margin       |-> parseMargin(IF order1.margin # 0
                                  THEN order1.margin ELSE order2.margin),
     leverage     |-> IF order1.leverage # ""
                      THEN order1.leverage ELSE order2.leverage,
     entryOrderId |-> "",
     exitOrderId  |-> "",
     allOrderIds  |-> <<>>,
     timeRep      |-> "Date"]

----------------------------------------------------------------------------
(* TradeCalculator.matchTrades *)

\* orders.filter(order => order.fillPrice && order.placingTime)
RECURSIVE FilterValid(_)
FilterValid(os) ==
    IF os = <<>> THEN <<>>
    ELSE IF Head(os).fillPrice # 0 /\ Head(os).placingTime # 0
         THEN <<Head(os)>> \o FilterValid(Tail(os))
         ELSE FilterValid(Tail(os))

\* a comparator that leaves the list as it came in
NoCompare(a, b) == 0

\* the comparator (a.placingTime - b.placingTime) || (a.fillPrice - b.fillPrice)
Compare(a, b) ==
    IF a.placingTime - b.placingTime # 0
    THEN a.placingTime - b.placingTime
    ELSE a.fillPrice - b.fillPrice

\* Array.prototype.sort is stable: an element goes behind every element that
\* does not compare greater than it.
RECURSIVE InsertSorted(_, _)
InsertSorted(o, sorted) ==
    IF sorted = <<>> THEN <<o>>
    ELSE IF Compare(Head(sorted), o) <= 0
         THEN <<Head(sorted)>> \o InsertSorted(o, Tail(sorted))
         ELSE <<o>> \o sorted

RECURSIVE SortOrders(_)
SortOrders(os) ==
    IF os = <<>> THEN <<>>
    ELSE InsertSorted(os[Len(os)], SortOrders(SubSeq(os, 1, Len(os) - 1)))

\* a lot that always carries the whole quantity of its order
LotOfWholeOrder(qty, price, order) ==
    [qty |-> order.qty, price |-> price, order |-> order]

\* an open lot { qty, price, order }
Lot(qty, price, order) == [qty |-> qty, price |-> price, order |-> order]

\* which of the open lots an opposite-side order closes next
LastLot(pos) == pos[Len(pos)]

OldestLot(pos) == pos[1]

\* the queue without the lot that was just closed completely
DropOldest(pos) == Tail(pos)

\* the while loop of an opposite-side order: close open lots first-in first-out
RECURSIVE CloseLots(_, _, _, _)
CloseLots(pos, order, remainingQty, trades) ==
    IF remainingQty > 0 /\ Len(pos) > 0
    THEN LET lot == OldestLot(pos)
             closeQty == Min(remainingQty, lot.qty)
             entryOrderCopy == [lot.order EXCEPT !.originalQty = lot.order.qty,
                                                 !.qty = closeQty]
             exitOrderCopy  == [order EXCEPT !.originalQty = order.qty,
                                             !.qty = closeQty]
             trade == createTradeObject(entryOrderCopy, exitOrderCopy)
             lotQty == lot.qty - closeQty
             rest == IF lotQty <= 0
                     THEN DropOldest(pos)
                     ELSE <<[lot EXCEPT !.qty = lotQty]>> \o Tail(pos)
         IN CloseLots(rest, order, remainingQty - closeQty, Append(trades, trade))
    ELSE [pos |-> pos, remainingQty |-> remainingQty, trades |-> trades]

\* one queue for every order, whatever its symbol
SharedQueue(order) == "CME_MINI:ES1!"

\* const sym = order.symbol: the queue an order works on
QueueKey(order) == order.symbol

\* every order scales into the open position
AlwaysSameSide(pos, order) == TRUE

\* const isSameSide = openSide === order.side.toLowerCase()
isSameSide(pos, order) == LowerSide(pos[1].order.side) = LowerSide(order.side)

\* a lot for what is left of the order, even when nothing is left
LeftoverAlways(pos, remainingQty, order) ==
    Append(pos, Lot(remainingQty, order.fillPrice, order))

\* leftover quantity opens a new position in the opposite direction
Leftover(pos, remainingQty, order) ==
    IF remainingQty > 0
    THEN Append(pos, Lot(remainingQty, order.fillPrice, order))
    ELSE pos

\* One iteration of `for (const order of validOrders)`: the queues and the
\* trades after the order has been handled.
MatchOrder(posns, trades, order) ==
    IF order.status # "Filled" THEN [positions |-> posns, trades |-> trades]
    ELSE
    LET sym == QueueKey(order)
        pos == posns[sym]
    IN  IF Len(pos) = 0
        THEN [positions |-> [posns EXCEPT ![sym] =
                                <<Lot(order.qty, order.fillPrice, order)>>],
              trades |-> trades]
        ELSE IF isSameSide(pos, order)
        THEN [positions |-> [posns EXCEPT ![sym] =
                                Append(pos, Lot(order.qty, order.fillPrice, order))],
              trades |-> trades]
        ELSE LET r == CloseLots(pos, order, order.qty, trades)
                 left == Leftover(r.pos, r.remainingQty, order)
             IN [positions |-> [posns EXCEPT ![sym] = left],
                 trades |-> r.trades]

\* every symbol an order list can name gets a queue (`positions[sym] = []`)
AllSymbols == Symbols \cup {"B2PRIME:SPXUSD", "ES1!", "NYSE:XYZ"}

NoPositions == [s \in AllSymbols |-> <<>>]

RECURSIVE MatchLoop(_, _, _)
MatchLoop(posns, trades, os) ==
    IF os = <<>> THEN [positions |-> posns, trades |-> trades]
    ELSE LET r == MatchOrder(posns, trades, Head(os))
         IN MatchLoop(r.positions, r.trades, Tail(os))

\* the whole function: the trades it returns
matchTrades(orders) ==
    MatchLoop(NoPositions, <<>>, SortOrders(FilterValid(orders))).trades

\* the open quantity per symbol it logs at the end
Unclosed(posns, sym) == SeqSum([i \in 1..Len(posns[sym]) |-> posns[sym][i].qty])

----------------------------------------------------------------------------
(* TradeCalculator.calculateTrade / processOrders: the part the store reads *)

\* the specs of unknown symbols, the commission per side in cents
DEFAULT_SPECS == [multiplier |-> 1, commission |-> 0]

\* this.CONTRACT_SPECS[key] || this.DEFAULT_SPECS: the entries of the symbols
\* that occur
CONTRACT_SPECS(key) ==
    CASE key = "ES1!"   -> [multiplier |-> 50, commission |-> 250]
      [] key = "NQ1!"   -> [multiplier |-> 20, commission |-> 250]
      [] key = "SPXUSD" -> [multiplier |-> 1,  commission |-> 0]
      [] OTHER          -> DEFAULT_SPECS

\* a lookup that takes the symbol as it is written
getContractSpecsAsWritten(symbolRaw) ==
    IF symbolRaw = "" THEN DEFAULT_SPECS ELSE CONTRACT_SPECS(symbolRaw)

getContractSpecs(symbolRaw) ==
    IF symbolRaw = "" THEN DEFAULT_SPECS
    ELSE CONTRACT_SPECS(StripPrefix(symbolRaw))

\* the sum of two exact amounts
FracAdd(a, b) == Frac(a.num * b.den + b.num * a.den, a.den * b.den)

FracLess(a, b) == a.num * b.den < b.num * a.den

FracSub(a, b) == Frac(a.num * b.den - b.num * a.den, a.den * b.den)

\* String(trade.leverage).match(/(\d+)/): whether the text holds a digit
HasNumber(leverage) == leverage \in {"10:1", "1:20", "0:1"}

\* parseFloat(levMatch[1]): the first run of digits of the text
LevVal(leverage) ==
    CASE leverage = "10:1" -> 10
      [] leverage = "1:20" -> 1
      [] OTHER             -> 0

\* the deviations of exactly one tenth that come out above 0.1 in double
\* arithmetic: 1.1 - 1 is 0.10000000000000009, while (55 - 50) / 50 is 0.1
RoundedAboveTenth == {<<Frac(11, 10), 1>>}

\* a comparison in exact arithmetic
DiffersExactly(derived, specMult) ==
    Abs(derived.num - specMult * derived.den) * 10 > specMult * derived.den

\* Math.abs(derived - specMult) / specMult > 0.1
Differs(derived, specMult) ==
    \/ DiffersExactly(derived, specMult)
    \/ <<derived, specMult>> \in RoundedAboveTenth

\* the multiplier of the registry, or the one derived from margin and leverage
effectiveMultiplier(trade) ==
    LET specs    == getContractSpecs(trade.contract)
        levVal   == LevVal(trade.leverage)
        refQty   == IF trade.entryOrder.originalQty # 0
                    THEN trade.entryOrder.originalQty ELSE trade.quantity
        derived  == Frac(trade.margin * levVal, refQty * trade.entryPrice)
        specMult == IF specs.multiplier # 0 THEN specs.multiplier ELSE 1
    IN IF /\ trade.margin > 0 /\ trade.leverage # ""
          /\ HasNumber(trade.leverage)
          /\ levVal > 0 /\ refQty > 0 /\ trade.entryPrice > 0
          /\ Differs(derived, specMult)
       THEN derived
       ELSE Frac(specs.multiplier, 1)

\* per-order commissions are used when one of them is above zero
UsesOrderCommission(entryCommNum, exitCommNum) ==
    entryCommNum > 0 \/ exitCommNum > 0

\* what a trade is charged for its entry leg: entryCommNum * (quantity /
\* origEntryQty), or the registry commission of one side
entryShare(trade) ==
    LET quantity     == trade.quantity
        origEntryQty == IF trade.entryOrder.originalQty # 0
                        THEN trade.entryOrder.originalQty ELSE quantity
    IN IF UsesOrderCommission(trade.entryOrder.commission, trade.exitOrder.commission)
       THEN Frac(trade.entryOrder.commission * quantity, origEntryQty)
       ELSE Frac(getContractSpecs(trade.contract).commission * quantity, 1)

\* what a trade is charged for its exit leg
exitShare(trade) ==
    LET quantity    == trade.quantity
        origExitQty == IF trade.exitOrder.originalQty # 0
                       THEN trade.exitOrder.originalQty ELSE quantity
    IN IF UsesOrderCommission(trade.entryOrder.commission, trade.exitOrder.commission)
       THEN Frac(trade.exitOrder.commission * quantity, origExitQty)
       ELSE Frac(getContractSpecs(trade.contract).commission * quantity, 1)

\* totalCommission, in cents
totalCommissionOf(trade) == FracAdd(entryShare(trade), exitShare(trade))

\* a trade that breaks even counted as a win
IsWinOrEven(netProfit) == netProfit.num >= 0

\* const isWin = netProfit > 0
IsWin(netProfit) == netProfit.num > 0

calculateTrade(trade) ==
    LET side            == IF trade.side = "" THEN "LONG" ELSE trade.side
        pointDifference == IF side = "SHORT"
                           THEN trade.entryPrice - trade.exitPrice
                           ELSE trade.exitPrice - trade.entryPrice
        multiplier      == effectiveMultiplier(trade)
        grossProfit     == Frac(pointDifference * trade.quantity * multiplier.num,
                                multiplier.den)
        totalCommission == totalCommissionOf(trade)
        netProfit       == FracSub(grossProfit, totalCommission)
        isWin           == IsWin(netProfit)
    IN [pointDifference |-> pointDifference,
        grossProfit     |-> grossProfit,
        totalCommission |-> totalCommission,
        netProfit       |-> netProfit,
        status          |-> IF isWin THEN "WIN" ELSE "LOSE",
        isWin           |-> isWin,
        side            |-> side,
        entryOrderId    |-> trade.entryOrder.orderId,
        exitOrderId     |-> trade.exitOrder.orderId] @@ trade

processOrders(orders) ==
    LET ts == matchTrades(orders)
    IN [i \in 1..Len(ts) |-> calculateTrade(ts[i])]

----------------------------------------------------------------------------
(* TradeCalculator.generateSummary *)

\* amounts of a summary are exact fractions as well; a division by zero the
\* code can run into is kept as the value JavaScript gives it
Zero == Frac(0, 1)

Infinity == [num |-> 1, den |-> 0]

\* sum / count, for count > 0
FracOver(a, count) == Frac(a.num, a.den * count)

\* a / b for b > 0
FracRatio(a, b) == Frac(a.num * b.den, a.den * b.num)

\* trades.reduce((sum, t) => sum + t.netProfit, 0)
RECURSIVE NetSum(_)
NetSum(ts) == IF ts = <<>> THEN Zero ELSE FracAdd(Head(ts).netProfit, NetSum(Tail(ts)))

RECURSIVE CommissionSum(_)
CommissionSum(ts) ==
    IF ts = <<>> THEN Zero
    ELSE FracAdd(Head(ts).totalCommission, CommissionSum(Tail(ts)))

RECURSIVE GrossSum(_)
GrossSum(ts) ==
    IF ts = <<>> THEN Zero ELSE FracAdd(Head(ts).grossProfit, GrossSum(Tail(ts)))

\* Math.max(...profits) and Math.min(...profits) of a non-empty list
bestOf(ts) ==
    (CHOOSE t \in Range(ts) :
        \A u \in Range(ts) : ~FracLess(t.netProfit, u.netProfit)).netProfit

worstOf(ts) ==
    (CHOOSE t \in Range(ts) :
        \A u \in Range(ts) : ~FracLess(u.netProfit, t.netProfit)).netProfit

\* a profit factor that is 0 when nothing was lost
ProfitFactorZeroWithoutLoss(winningTrades, losingTrades) ==
    LET grossWin  == NetSum(winningTrades)
        lossSum   == NetSum(losingTrades)
        grossLoss == [lossSum EXCEPT !.num = Abs(@)]
    IN IF grossLoss.num > 0 THEN FracRatio(grossWin, grossLoss) ELSE Zero

\* grossLoss > 0 ? grossWin / grossLoss : grossWin > 0 ? Infinity : 0
calculateProfitFactor(winningTrades, losingTrades) ==
    LET grossWin  == NetSum(winningTrades)
        lossSum   == NetSum(losingTrades)
        grossLoss == [lossSum EXCEPT !.num = Abs(@)]
    IN IF grossLoss.num > 0 THEN FracRatio(grossWin, grossLoss)
       ELSE IF grossWin.num > 0 THEN Infinity ELSE Zero

\* the loop of calculateMaxDrawdown from the state [runningTotal, peak, max]
RECURSIVE DrawdownLoop(_, _)
DrawdownLoop(st, ts) ==
    IF ts = <<>> THEN st.maxDrawdown
    ELSE LET runningTotal == FracAdd(st.runningTotal, Head(ts).netProfit)
             peak == IF FracLess(st.peak, runningTotal) THEN runningTotal ELSE st.peak
             drawdown == FracSub(peak, runningTotal)
             maxDrawdown == IF FracLess(st.maxDrawdown, drawdown)
                            THEN drawdown ELSE st.maxDrawdown
         IN DrawdownLoop([runningTotal |-> runningTotal, peak |-> peak,
                          maxDrawdown |-> maxDrawdown], Tail(ts))

\* a drawdown whose first peak is the running total after the first trade
DrawdownAmongSums(ts) ==
    IF ts = <<>> THEN Zero
    ELSE DrawdownLoop([runningTotal |-> Head(ts).netProfit,
                       peak |-> Head(ts).netProfit, maxDrawdown |-> Zero], Tail(ts))

calculateMaxDrawdown(ts) ==
    DrawdownLoop([runningTotal |-> Zero, peak |-> Zero, maxDrawdown |-> Zero], ts)

\* the loop of getMaxConsecutive
RECURSIVE ConsecutiveLoop(_, _, _, _)
ConsecutiveLoop(maxConsecutive, currentConsecutive, ts, isWin) ==
    IF ts = <<>> THEN maxConsecutive
    ELSE IF Head(ts).isWin = isWin
         THEN ConsecutiveLoop(IF currentConsecutive + 1 > maxConsecutive
                              THEN currentConsecutive + 1 ELSE maxConsecutive,
                              currentConsecutive + 1, Tail(ts), isWin)
         ELSE ConsecutiveLoop(maxConsecutive, 0, Tail(ts), isWin)

getMaxConsecutive(ts, isWin) == ConsecutiveLoop(0, 0, ts, isWin)

\* dateRange: null is [start |-> 0, end |-> 0]
NullRange == [start |-> 0, end |-> 0]

getDateRange(ts) ==
    LET dates == {ts[i].entryTime : i \in 1..Len(ts)} \ {0}
    IN IF dates = {} THEN NullRange
       ELSE [start |-> CHOOSE d \in dates : \A e \in dates : d <= e,
             end   |-> CHOOSE d \in dates : \A e \in dates : d >= e]

getEmptySummary ==
    [totalTrades |-> 0, totalProfit |-> Zero, totalGrossProfit |-> Zero,
     totalCommission |-> Zero, winCount |-> 0, lossCount |-> 0,
     winRate |-> Zero, bestTrade |-> Zero, worstTrade |-> Zero,
     averageProfit |-> Zero, averageWin |-> Zero, averageLoss |-> Zero,
     profitFactor |-> Zero, sharpeRatio |-> Zero, maxDrawdown |-> Zero,
     consecutiveWins |-> 0, consecutiveLosses |-> 0, dateRange |-> NullRange]

\* sharpeRatio: 0 for fewer than two trades; for more it is the mean over
\* the square root of the variance, which is kept as the two amounts under
\* the names mean and deviations (the profits the variance is taken of)
calculateSharpeRatio(ts) ==
    IF Len(ts) < 2 THEN Zero
    ELSE [mean |-> FracOver(NetSum(ts), Len(ts)),
          deviations |-> [i \in 1..Len(ts) |-> ts[i].netProfit]]

generateSummary(ts) ==
    IF Len(ts) = 0 THEN getEmptySummary
    ELSE LET winningTrades == SelectSeq(ts, LAMBDA t : t.isWin)
             losingTrades  == SelectSeq(ts, LAMBDA t : ~t.isWin)
             winCount      == Len(winningTrades)
             lossCount     == Len(losingTrades)
             totalProfit   == NetSum(ts)
         IN [totalTrades      |-> Len(ts),
             totalProfit      |-> totalProfit,
             totalGrossProfit |-> GrossSum(ts),
             totalCommission  |-> CommissionSum(ts),
             winCount         |-> winCount,
             lossCount        |-> lossCount,
             winRate          |-> Frac(winCount * 100, Len(ts)),
             bestTrade        |-> bestOf(ts),
             worstTrade       |-> worstOf(ts),
             averageProfit    |-> FracOver(totalProfit, Len(ts)),
             averageWin       |-> IF winCount > 0
                                  THEN FracOver(NetSum(winningTrades), winCount)
                                  ELSE Zero,
             averageLoss      |-> IF lossCount > 0
                                  THEN FracOver(NetSum(losingTrades), lossCount)
                                  ELSE Zero,
             profitFactor     |-> calculateProfitFactor(winningTrades, losingTrades),
             sharpeRatio      |-> calculateSharpeRatio(ts),
             maxDrawdown      |-> calculateMaxDrawdown(ts),
             consecutiveWins  |-> getMaxConsecutive(ts, TRUE),
             consecutiveLosses |-> getMaxConsecutive(ts, FALSE),
             dateRange        |-> getDateRange(ts)]

\* no summary has been generated yet
NoSummary == [totalTrades |-> 0 - 1]

----------------------------------------------------------------------------

(* The matcher as a state machine: one step per loop iteration *)

Sides  == {"Buy", "Sell"}

\* the fill price of the i-th generated order: orders that share a placing
\* time are then reordered by the price tie-break or, at equal prices, kept
\* in input order
GenPrice(i) == IF i % 2 = 1 THEN 10100 ELSE 10000

GenIds == <<"o1", "o2", "o3", "o4", "o5">>

\* the commission cell of the i-th generated order: blank, a charge, a rebate
GenCommission(i) ==
    CASE i % 3 = 1 -> 0
      [] i % 3 = 2 -> 124
      [] OTHER     -> 0 - 124

\* what can keep an order out of the matching: an empty fill price cell, a
\* fill price of 0, an unreadable placing time, a status other than Filled
Defects == {"nullPrice", "zeroPrice", "nullTime", "Cancelled"}

\* attributes of a generated order: symbol, side, quantity, time, defect
Attrs ==
    (Symbols \X Sides \X (1..MaxQty) \X (1..MaxTime) \X {"none"})
    \cup ({"CME_MINI:ES1!"} \X {"Sell"} \X {1} \X {1} \X Defects)

GenOrder(i, a) ==
    LET o == WithCommission(Order(GenIds[i], a[1], a[2], "Market", a[3],
                                  GenPrice(i), a[4] * 1000, "Filled"),
                            GenCommission(i))
    IN CASE a[5] = "nullPrice" -> WithoutPrice(o)
         [] a[5] = "zeroPrice" -> [o EXCEPT !.fillPrice = 0]
         [] a[5] = "nullTime"  -> [o EXCEPT !.placingTime = 0]
         [] a[5] = "Cancelled" -> [o EXCEPT !.status = "Cancelled"]
         [] OTHER              -> o

\* the order list of the given attribute list
OrderList(f) == [i \in 1..Len(f) |-> GenOrder(i, f[i])]

\* Sell 5 @100, then Buy 2 @101, Buy 2 @102, Buy 1 @103
FifoInstance ==
    <<Order("s5", "CME_MINI:ES1!", "Sell", "Limit",  5, 10000, 1000, "Filled"),
      Order("b1", "CME_MINI:ES1!", "Buy",  "Market", 2, 10100, 2000, "Filled"),
      Order("b2", "CME_MINI:ES1!", "Buy",  "Market", 2, 10200, 3000, "Filled"),
      Order("b3", "CME_MINI:ES1!", "Buy",  "Market", 1, 10300, 4000, "Filled")>>

\* a long ES1! round trip of 5 contracts and a short NQ1! round trip whose
\* gross profit equals its commission, both with blank commission cells
PnlInstance ==
    <<Order("p1", "CME_MINI:ES1!", "Buy",  "Limit",  5, 697075, 1000, "Filled"),
      Order("p2", "CME_MINI:ES1!", "Sell", "Market", 5, 697675, 2000, "Filled"),
      Order("p3", "CME_MINI:NQ1!", "Sell", "Limit",  1, 10025, 3000, "Filled"),
      Order("p4", "CME_MINI:NQ1!", "Buy",  "Market", 1, 10000, 4000, "Filled")>>

\* round trips on a symbol without prefix, on a symbol the registry does not
\* have, and on the prefixed symbol, all with blank commission cells
LookupInstance ==
    <<Order("u1", "ES1!",          "Buy",  "Limit",  1, 10000, 1000, "Filled"),
      Order("u2", "NYSE:XYZ",      "Buy",  "Limit",  2, 10000, 1000, "Filled"),
      Order("u3", "CME_MINI:ES1!", "Buy",  "Limit",  1, 10000, 1000, "Filled"),
      Order("u4", "ES1!",          "Sell", "Market", 1, 10100, 2000, "Filled"),
      Order("u5", "NYSE:XYZ",      "Sell", "Market", 2, 10100, 2000, "Filled"),
      Order("u6", "CME_MINI:ES1!", "Sell", "Market", 1, 10100, 2000, "Filled")>>

\* a long position of two lots that one sell order closes and turns into a
\* short position, which two buy orders close and turn long again
FlipInstance ==
    <<Order("f1", "CME_MINI:ES1!", "Buy",  "Limit",  1, 10000, 1000, "Filled"),
      Order("f2", "CME_MINI:ES1!", "Buy",  "Limit",  2, 10100, 2000, "Filled"),
      Order("f3", "CME_MINI:ES1!", "Sell", "Market", 5, 10200, 3000, "Filled"),
      Order("f4", "CME_MINI:ES1!", "Buy",  "Market", 1, 10300, 4000, "Filled"),
      Order("f5", "CME_MINI:ES1!", "Buy",  "Market", 3, 10400, 5000, "Filled")>>

EmptyDatabase == [trades |-> <<>>, orderIds |-> {}]

NoStats == [newTrades |-> 0, duplicates |-> 0, totalTrades |-> 0]

IdlePf == [pc |-> "idle", file |-> "", orders |-> <<>>, trades |-> <<>>, error |-> ""]

NoHist == [file |-> "", clear |-> ""]

\* the UIController after construction: this.currentTrades = []
NoUi == [tab |-> "dashboard", currentTrades |-> <<>>, shared |-> FALSE]

AppIdle ==
    /\ ui = NoUi
    /\ tradeDatabase = EmptyDatabase
    /\ storage = [kind |-> "absent", trades |-> <<>>]
    /\ remote = [kind |-> "absent", trades |-> <<>>]
    /\ pf = IdlePf
    /\ uploadStats = NoStats
    /\ hist = NoHist

\* the first two data lines of an IBKR trade history: the parser names an
\* order `ibkr_${time.getTime()}_${i}` after its time and its line
IbkrInstance ==
    <<Order("ibkr_1000_1", "CME_MINI:ES1!", "Buy",  "Market", 1, 10000, 1000, "Filled"),
      Order("ibkr_2000_2", "CME_MINI:ES1!", "Sell", "Market", 1, 10100, 2000, "Filled")>>

InitMatch ==
    /\ \/ \E n \in 0..MaxOrders : \E f \in [1..n -> Attrs] : mOrders = OrderList(f)
       \/ mOrders \in {FifoInstance, PnlInstance, LookupInstance, FlipInstance,
                       IbkrInstance}
    /\ validOrders = <<>>
    /\ mIdx = 1
    /\ positions = NoPositions
    /\ mTrades = <<>>
    /\ mPc = "start"
    /\ mSummary = NoSummary
    /\ AppIdle

\* const validOrders = orders.filter(...).sort(...)
MatchStart ==
    /\ mPc = "start"
    /\ validOrders' = SortOrders(FilterValid(mOrders))
    /\ mPc' = "loop"
    /\ UNCHANGED <<mOrders, mIdx, positions, mTrades, mSummary>>
    /\ UNCHANGED appVars

\* one iteration of the for loop
MatchStep ==
    /\ mPc = "loop"
    /\ mIdx <= Len(validOrders)
    /\ LET r == MatchOrder(positions, mTrades, validOrders[mIdx])
       IN /\ positions' = r.positions
          /\ mTrades' = r.trades
    /\ mIdx' = mIdx + 1
    /\ UNCHANGED <<mOrders, validOrders, mPc, mSummary>>
    /\ UNCHANGED appVars

\* the loop is over: unclosed positions are logged, trades returned
MatchFinish ==
    /\ mPc = "loop"
    /\ mIdx > Len(validOrders)
    /\ mPc' = "done"
    /\ UNCHANGED <<mOrders, validOrders, mIdx, positions, mTrades, mSummary>>
    /\ UNCHANGED appVars

\* processOrders, step 2: every matched trade is priced
CalculateTrades ==
    /\ mPc = "done"
    /\ mTrades' = [i \in 1..Len(mTrades) |-> calculateTrade(mTrades[i])]
    /\ mPc' = "calculated"
    /\ UNCHANGED <<mOrders, validOrders, mIdx, positions, mSummary>>
    /\ UNCHANGED appVars

\* processOrders, step 3: the summary of the priced trades
GenerateSummary ==
    /\ mPc = "calculated"
    /\ mSummary' = generateSummary(mTrades)
    /\ mPc' = "summarized"
    /\ UNCHANGED <<mOrders, validOrders, mIdx, positions, mTrades>>
    /\ UNCHANGED appVars

NextMatch ==
    MatchStart \/ MatchStep \/ MatchFinish \/ CalculateTrades \/ GenerateSummary

SpecMatch == InitMatch /\ [][NextMatch]_vars

----------------------------------------------------------------------------
(* Claims about the matcher *)

\* total quantity of the first n lots of a queue
RECURSIVE LotSum(_, _)
LotSum(pos, n) == IF n = 0 THEN 0 ELSE pos[n].qty + LotSum(pos, n - 1)

\* What first-in first-out closing demands of the step that handles order o
\* against the queue pos: the new trades nt pair o with pos[1], pos[2], ...
\* in that order, each for min(what is left of o, the lot), at the lot's price,
\* and stop as soon as o is used up or the queue is empty.
FifoCloses(pos, o, nt, posAfter) ==
    LET k == Len(nt) IN
    /\ k >= 1 /\ k <= Len(pos)
    /\ \A j \in 1..k :
         /\ nt[j].quantity = Min(o.qty - LotSum(pos, j - 1), pos[j].qty)
         /\ nt[j].quantity >= 1
         /\ nt[j].entryPrice = pos[j].price
         /\ nt[j].entryOrder.orderId = pos[j].order.orderId
         /\ nt[j].exitOrder.orderId = o.orderId
         /\ nt[j].exitPrice = o.fillPrice
    /\ LotSum(pos, k - 1) < o.qty
    /\ k = Len(pos) \/ LotSum(pos, k) >= o.qty
    \* lots behind the last one touched stay open and untouched
    /\ \A j \in (k + 1)..Len(pos) :
         \E i \in 1..Len(posAfter) : posAfter[i] = pos[j]
    \* a lot touched but not used up stays at the front with the rest
    /\ LotSum(pos, k) > o.qty =>
         /\ Len(posAfter) = Len(pos) - k + 1
         /\ posAfter[1].qty = LotSum(pos, k) - o.qty
         /\ posAfter[1].order.orderId = pos[k].order.orderId

FifoStepOK ==
    (mPc = "loop" /\ mIdx <= Len(validOrders) /\ mIdx' = mIdx + 1) =>
        LET o   == validOrders[mIdx]
            pos == positions[o.symbol]
            nt  == SubSeq(mTrades', Len(mTrades) + 1, Len(mTrades'))
        IN /\ Len(mTrades') >= Len(mTrades)
           /\ SubSeq(mTrades', 1, Len(mTrades)) = mTrades
           /\ IF /\ o.status = "Filled"
                 /\ Len(pos) > 0
                 /\ LowerSide(pos[1].order.side) # LowerSide(o.side)
              THEN FifoCloses(pos, o, nt, positions'[o.symbol])
              ELSE nt = <<>>

FifoInstanceOK ==
    (mPc = "done" /\ mOrders = FifoInstance) =>
        /\ Len(mTrades) = 3
        /\ \A i \in 1..3 : mTrades[i].side = "SHORT" /\ mTrades[i].entryPrice = 10000
        /\ [i \in 1..3 |-> mTrades[i].quantity] = <<2, 2, 1>>
        /\ \A s \in AllSymbols : Unclosed(positions, s) = 0

\* C3: an opposite-side order closes the open lots of its symbol oldest first,
\* one trade per lot touched, for min(remaining order quantity, lot quantity)
\* at the lot's opening price; Sell 5 @100 then Buy 2, Buy 2, Buy 1 gives three
\* SHORT trades of 2, 2 and 1 entered at 100 and leaves nothing open.
FifoMatching == [][FifoStepOK]_vars /\ [](FifoInstanceOK)

\* a run in which one order has closed two lots, the second only in part
FifoWitness ==
    /\ mPc = "done"
    /\ \E i, j \in 1..Len(mTrades) :
         /\ i < j
         /\ mTrades[i].exitOrder.orderId = mTrades[j].exitOrder.orderId
         /\ mTrades[i].entryOrder.orderId # mTrades[j].entryOrder.orderId
         /\ mTrades[j].quantity < mTrades[j].entryOrder.originalQty

\* the order of the input list with a given id
\* the orders of one symbol, in the order of the list
OfSymbol(os, sym) == SelectSeq(os, LAMBDA o : o.symbol = sym)

\* the trades of one symbol, in the order of the list
TradesOfSymbol(ts, sym) == SelectSeq(ts, LAMBDA t : t.entryOrder.symbol = sym)

\* C12: the trades matchTrades returns for a symbol are the trades it returns
\* for the orders of that symbol alone, so two lists that agree on the orders
\* of the symbol and their relative order get identical trades for it.
SymbolIsolation ==
    (mPc = "done") =>
        \A sym \in AllSymbols :
            TradesOfSymbol(mTrades, sym) = matchTrades(OfSymbol(mOrders, sym))

\* a trade whose entry and exit orders have a qualifying order of another
\* symbol between them in the input list
SymbolIsolationWitness ==
    /\ mPc = "done"
    /\ \E i, j, k \in 1..Len(mOrders) :
          /\ i < j /\ j < k
          /\ mOrders[i].symbol = mOrders[k].symbol
          /\ mOrders[j].symbol # mOrders[i].symbol
          /\ mOrders[j].side # mOrders[i].side
          /\ mOrders[j].fillPrice # 0 /\ mOrders[j].placingTime # 0
          /\ mOrders[i].placingTime <= mOrders[j].placingTime
          /\ mOrders[j].placingTime <= mOrders[k].placingTime
          /\ \E t \in Range(mTrades) :
                /\ t.entryOrder.orderId = mOrders[i].orderId
                /\ t.exitOrder.orderId = mOrders[k].orderId

\* the same orders in another arrangement of the input list
Rearranged(os, p) == [i \in 1..Len(os) |-> os[p[i]]]

\* what the claim compares of a trade: pairing, side, quantity
Pairing(t) == <<t.entryOrder.orderId, t.exitOrder.orderId, t.side, t.quantity>>

Pairings(ts) == [i \in 1..Len(ts) |-> Pairing(ts[i])]

\* C13: every arrangement of the same orders in the input list gives the same
\* trades (pairing, side, quantities), also when several orders share a
\* placingTime.
DeterministicOrdering ==
    (mPc = "done") =>
        \A p \in Permutations(1..Len(mOrders)) :
            Pairings(matchTrades(Rearranged(mOrders, p))) = Pairings(mTrades)

\* the precondition as the claim words it: a fill price that is not null, a
\* placing time that is not null, status Filled
Qualifies(o) == ~o.fillPriceNull /\ o.placingTime # 0 /\ o.status = "Filled"

\* the order opened or scaled a lot that is still open, or it is the entry or
\* the exit of a trade
TakesPart(id) ==
    \/ \E sym \in AllSymbols : \E l \in Range(positions[sym]) : l.order.orderId = id
    \/ \E t \in Range(mTrades) : t.entryOrder.orderId = id \/ t.exitOrder.orderId = id

\* C14: exactly the orders with a non-null fillPrice, a non-null placingTime
\* and status Filled take part in the matching; every other order is in no
\* queue and in no trade.
PreconditionFiltering ==
    (mPc = "done") =>
        \A i \in 1..Len(mOrders) :
            Qualifies(mOrders[i]) <=> TakesPart(mOrders[i].orderId)

\* the orders of a symbol that reach the queues
Matched(os, sym) ==
    SelectSeq(SortOrders(FilterValid(os)),
              LAMBDA o : o.status = "Filled" /\ o.symbol = sym)

\* all of them are on one side
OneSided(os, sym) ==
    \A o1, o2 \in Range(Matched(os, sym)) : LowerSide(o1.side) = LowerSide(o2.side)

\* the sum of their quantities
RECURSIVE QtySum(_)
QtySum(os) == IF os = <<>> THEN 0 ELSE Head(os).qty + QtySum(Tail(os))

\* C15: when the orders of a symbol that are matched are all on one side there
\* is no trade for the symbol and the open quantity is the sum of their
\* quantities; that quantity reaches the caller, so a caller that gets what
\* matchTrades returns for an empty list has no open quantity.
UnclosedReported ==
    (mPc = "done") =>
        \A sym \in AllSymbols :
            OneSided(mOrders, sym) =>
                /\ TradesOfSymbol(mTrades, sym) = <<>>
                /\ Unclosed(positions, sym) = QtySum(Matched(mOrders, sym))
                /\ (mTrades = matchTrades(<<>>)) => Unclosed(positions, sym) = 0

OrderById(id) == CHOOSE o \in Range(mOrders) : o.orderId = id

IndexIn(os, id) == CHOOSE i \in 1..Len(os) : os[i].orderId = id

\* C4: a trade is LONG exactly when the order that opened the lot it closes
\* was a buy, and SHORT otherwise, however many fills lie in between.
SideAttribution ==
    \A i \in 1..Len(mTrades) :
        LET t      == mTrades[i]
            opener == OrderById(t.entryOrder.orderId)
            closer == OrderById(t.exitOrder.orderId)
        IN /\ (t.side = "LONG") <=> (LowerSide(opener.side) = "buy")
           /\ (t.side = "SHORT") <=> (LowerSide(opener.side) = "sell")
           /\ LowerSide(closer.side) # LowerSide(opener.side)
           /\ IndexIn(validOrders, opener.orderId) < IndexIn(validOrders, closer.orderId)

\* C16: every trade the matcher emits has entryTime <= exitTime.
EntryBeforeExit ==
    \A t \in Range(mTrades) : t.entryTime <= t.exitTime

\* a trade whose exit order stands before its entry order in the input list,
\* and a trade whose entry and exit share the placing time
EntryBeforeExitWitness ==
    /\ mPc = "done"
    /\ \E t \in Range(mTrades) :
          /\ t.entryTime < t.exitTime
          /\ IndexIn(mOrders, t.exitOrder.orderId) < IndexIn(mOrders, t.entryOrder.orderId)
    /\ \E t \in Range(mTrades) : t.entryTime = t.exitTime

\* C17: a priced trade has pointDifference = entry - exit when SHORT and
\* exit - entry otherwise, grossProfit = pointDifference x quantity x
\* multiplier, netProfit = grossProfit - totalCommission, and status WIN
\* exactly when netProfit > 0; the long ES1! trade 6970.75 -> 6976.75 of 5
\* contracts has gross 1500.00, commission 25.00, net 1475.00 and is a WIN.
PerTradePnl ==
    (mPc = "calculated") =>
        /\ \A t \in Range(mTrades) :
              /\ t.pointDifference = IF t.side = "SHORT"
                                     THEN t.entryPrice - t.exitPrice
                                     ELSE t.exitPrice - t.entryPrice
              /\ t.grossProfit = Frac(t.pointDifference * t.quantity
                                        * getContractSpecs(t.contract).multiplier, 1)
              /\ FracAdd(t.netProfit, t.totalCommission) = t.grossProfit
              /\ (t.status = "WIN") <=> (t.netProfit.num > 0)
              /\ t.status \in {"WIN", "LOSE"}
        /\ (mOrders = PnlInstance) =>
              /\ mTrades[1].side = "LONG"
              /\ mTrades[1].grossProfit = Frac(150000, 1)
              /\ mTrades[1].totalCommission = Frac(2500, 1)
              /\ mTrades[1].netProfit = Frac(147500, 1)
              /\ mTrades[1].status = "WIN"

\* the instance has been priced: its long trade wins, its short trade ends
\* with a net of exactly 0 and is a LOSE
PerTradePnlWitness ==
    /\ mPc = "calculated"
    /\ mOrders = PnlInstance
    /\ Len(mTrades) = 2
    /\ mTrades[1].status = "WIN"
    /\ mTrades[2].side = "SHORT"
    /\ mTrades[2].netProfit.num = 0
    /\ mTrades[2].status = "LOSE"

\* C18: a priced trade with a non-zero commission on its entry or its exit
\* order is charged entry commission x quantity / entry original quantity +
\* exit commission x quantity / exit original quantity; with both blank or
\* zero it is charged the registry commission per side x 2 x quantity.
CommissionRule ==
    (mPc = "calculated") =>
        \A t \in Range(mTrades) :
            LET e  == t.entryOrder.commission
                x  == t.exitOrder.commission
                oe == t.entryOrder.originalQty
                ox == t.exitOrder.originalQty
            IN IF e # 0 \/ x # 0
               THEN t.totalCommission.num * oe * ox
                      = (e * t.quantity * ox + x * t.quantity * oe)
                          * t.totalCommission.den
               ELSE t.totalCommission
                      = Frac(getContractSpecs(t.contract).commission * 2 * t.quantity, 1)

\* the trades an order is a leg of
TradesOf(ts, id) ==
    SelectSeq(ts, LAMBDA t : t.entryOrder.orderId = id \/ t.exitOrder.orderId = id)

\* what a trade charges for the leg that the order is
ShareOf(t, id) == IF t.entryOrder.orderId = id THEN entryShare(t) ELSE exitShare(t)

RECURSIVE ShareSum(_, _)
ShareSum(ts, id) ==
    IF ts = <<>> THEN Frac(0, 1)
    ELSE FracAdd(ShareOf(Head(ts), id), ShareSum(Tail(ts), id))

\* the order has no open lot left and is a leg of more than one trade
FullySplit(o) ==
    /\ \A sym \in AllSymbols : \A l \in Range(positions[sym]) : l.order.orderId # o.orderId
    /\ Len(TradesOf(mTrades, o.orderId)) > 1

\* C19: an order with commission c and quantity q that is fully matched and
\* split over several trades is charged c x tradeQuantity / q in each of them,
\* and the shares sum to c.
CommissionApportionment ==
    (mPc = "calculated") =>
        \A o \in Range(mOrders) :
            (o.commission # 0 /\ FullySplit(o)) =>
                /\ \A t \in Range(TradesOf(mTrades, o.orderId)) :
                      ShareOf(t, o.orderId) = Frac(o.commission * t.quantity, o.qty)
                /\ ShareSum(TradesOf(mTrades, o.orderId), o.orderId)
                     = Frac(o.commission, 1)

\* an amount that is the number 0, not NaN and not Infinity
IsZero(a) == a.num = 0 /\ a.den # 0

\* C22: the summary of a trade set in which every trade wins has profitFactor
\* Infinity; the summary of an empty trade set has 0 in every numeric field
\* and null as dateRange.
SummaryBoundaries ==
    (mPc = "summarized") =>
        /\ (mTrades # <<>> /\ \A t \in Range(mTrades) : t.status = "WIN")
              => mSummary.profitFactor = Infinity
        /\ (mTrades = <<>>) =>
              /\ mSummary.totalTrades = 0 /\ IsZero(mSummary.totalGrossProfit)
              /\ mSummary.winCount = 0 /\ mSummary.lossCount = 0
              /\ mSummary.consecutiveWins = 0 /\ mSummary.consecutiveLosses = 0
              /\ IsZero(mSummary.totalProfit) /\ IsZero(mSummary.totalCommission)
              /\ IsZero(mSummary.winRate) /\ IsZero(mSummary.bestTrade)
              /\ IsZero(mSummary.worstTrade) /\ IsZero(mSummary.averageProfit)
              /\ IsZero(mSummary.averageWin) /\ IsZero(mSummary.averageLoss)
              /\ IsZero(mSummary.profitFactor) /\ IsZero(mSummary.sharpeRatio)
              /\ IsZero(mSummary.maxDrawdown)
              /\ mSummary.dateRange = NullRange

\* the summary of two or more trades that all win
SummaryBoundariesWitness ==
    /\ mPc = "summarized"
    /\ Len(mTrades) >= 2
    /\ \A t \in Range(mTrades) : t.status = "WIN"
    /\ mSummary.winCount = Len(mTrades) /\ mSummary.lossCount = 0
    /\ mSummary.profitFactor = Infinity

SideWitness ==
    \E i \in 1..Len(mTrades) :
        /\ mTrades[i].side = "SHORT"
        /\ IndexIn(validOrders, mTrades[i].exitOrder.orderId)
             > IndexIn(validOrders, mTrades[i].entryOrder.orderId) + 1

----------------------------------------------------------------------------
(* TradleApp.extractTradeOrderIds *)

FuzzyWindow == 60000

PriceTolerance == 1

\* [...new Set(orderIds)]: first occurrences, in order
RECURSIVE Dedupe(_)
Dedupe(s) ==
    IF s = <<>> THEN <<>>
    ELSE LET r == Dedupe(SubSeq(s, 1, Len(s) - 1))
             x == s[Len(s)]
         IN IF x \in Range(r) THEN r ELSE Append(r, x)

\* id.startsWith('trade_')
StartsWithTrade(id) == Len(id) >= 2 /\ id[1] = "trade"

\* a Date minus an ISO string is NaN, and every comparison with NaN is false
Within(orderTime, tradeTime, timeRep) ==
    timeRep = "Date" /\ Abs(orderTime - tradeTime) < FuzzyWindow

extractTradeOrderIds(trade, orders) ==
    LET direct == (IF trade.entryOrderId # "" THEN <<trade.entryOrderId>> ELSE <<>>)
                  \o (IF trade.exitOrderId # "" THEN <<trade.exitOrderId>> ELSE <<>>)
        nested == IF direct # <<>> THEN direct
                  ELSE (IF trade.entryOrder.orderId # ""
                        THEN <<trade.entryOrder.orderId>> ELSE <<>>)
                       \o (IF trade.exitOrder.orderId # ""
                           THEN <<trade.exitOrder.orderId>> ELSE <<>>)
        IsPart(part) == part \notin {"", "undefined", "null"}
        fromId == IF nested = <<>> /\ StartsWithTrade(trade.id)
                  THEN SelectSeq(Tail(trade.id), IsPart)
                  ELSE nested
        Near(o) == /\ o.orderId # "" /\ o.placingTime # 0 /\ o.fillPrice # 0
                   /\ \/ /\ Within(o.placingTime, trade.entryTime, trade.timeRep)
                         /\ Abs(o.fillPrice - trade.entryPrice) < PriceTolerance
                      \/ /\ Within(o.placingTime, trade.exitTime, trade.timeRep)
                         /\ Abs(o.fillPrice - trade.exitPrice) < PriceTolerance
        near == SelectSeq(orders, Near)
        fuzzy == IF fromId = <<>>
                 THEN [i \in 1..Len(near) |-> near[i].orderId]
                 ELSE fromId
    IN Dedupe(fuzzy)

----------------------------------------------------------------------------
(* TradleApp.mergeTradesWithDatabase *)

EveryOrderIdExists(ids, orderIds) == \A i \in 1..Len(ids) : ids[i] \in orderIds

\* tradeOrderIds.some(orderId => this.tradeDatabase.orderIds.has(orderId))
HasExistingOrderId(ids, orderIds) == \E i \in 1..Len(ids) : ids[i] \in orderIds

\* generateTradeId: 'trade_' + Date.now() + '_' + random, an id no trade has yet
generateTradeId(used) ==
    LET n == CHOOSE k \in 1..(Cardinality(used) + 1) :
                 /\ <<"trade", "now", ToString(k)>> \notin used
                 /\ \A j \in 1..(k - 1) : <<"trade", "now", ToString(j)>> \in used
    IN <<"trade", "now", ToString(n)>>

\* a merge that gives every accepted trade a fresh id
NeverKeepsId(id) == FALSE

\* trade.id && trade.id.startsWith('trade_') && !trade.id.includes('_undefined')
KeepsId(id) == StartsWithTrade(id) /\ "undefined" \notin Range(Tail(id))

\* the body of newTrades.forEach
MergeTrade(acc, trade, orders) ==
    LET ids == extractTradeOrderIds(trade, orders) IN
    IF Len(ids) = 0
    THEN LET enhanced == [trade EXCEPT !.id = generateTradeId(acc.used)]
         IN [acc EXCEPT !.trades = Append(@, enhanced),
                        !.newTrades = @ + 1,
                        !.used = @ \cup {enhanced.id}]
    ELSE IF HasExistingOrderId(ids, acc.orderIds)
    THEN [acc EXCEPT !.duplicates = @ + 1]
    ELSE LET tradeId == IF KeepsId(trade.id) THEN trade.id
                        ELSE generateTradeId(acc.used)
             enhanced == [trade EXCEPT !.id = tradeId,
                                       !.entryOrderId = ids[1],
                                       !.exitOrderId = IF Len(ids) >= 2 THEN ids[2] ELSE "",
                                       !.allOrderIds = ids]
         IN [acc EXCEPT !.trades = Append(@, enhanced),
                        !.orderIds = @ \cup Range(ids),
                        !.newTrades = @ + 1,
                        !.used = @ \cup {tradeId}]

RECURSIVE MergeLoop(_, _, _)
MergeLoop(acc, newTrades, orders) ==
    IF newTrades = <<>> THEN acc
    ELSE MergeLoop(MergeTrade(acc, Head(newTrades), orders), Tail(newTrades), orders)

\* the database and the returned counts; `used` are the trade ids in existence
mergeTradesWithDatabase(db, newTrades, newOrders, used) ==
    LET r == MergeLoop([trades |-> db.trades, orderIds |-> db.orderIds,
                        newTrades |-> 0, duplicates |-> 0, used |-> used],
                       newTrades, newOrders)
    IN [db    |-> [trades |-> r.trades, orderIds |-> r.orderIds],
        stats |-> [newTrades |-> r.newTrades, duplicates |-> r.duplicates,
                   totalTrades |-> Len(r.trades)]]

----------------------------------------------------------------------------
(* localStorage['tradle_trade_database'] and JSON *)

\* JSON.stringify turns every Date into an ISO string; JSON.parse leaves it one
JsonTrade(t) == [t EXCEPT !.timeRep = "ISO"]

JsonTrades(ts) == [i \in 1..Len(ts) |-> JsonTrade(ts[i])]

\* what the key can hold: nothing, a saved database, text that is not JSON,
\* the JSON literal null, or a JSON object without a trades array
Absent      == [kind |-> "absent", trades |-> <<>>]
Unparsable  == [kind |-> "unparsable", trades |-> <<>>]
NullJson    == [kind |-> "null", trades |-> <<>>]
NoStructure == [kind |-> "nostruct", trades |-> <<>>]
SavedDb(ts) == [kind |-> "db", trades |-> ts]

Corrupted == {Unparsable, NullJson, NoStructure}

----------------------------------------------------------------------------
(* TradleApp.loadTradeDatabase *)

\* isEntryType: Limit and Stop are entry types, everything else is not
isEntryType(type) == type \in {"Limit", "Stop", "limit", "stop"}

\* the correction applied to each stored trade
FixSide(trade) ==
    LET order1 == trade.entryOrder
        order2 == trade.exitOrder
        o1IsEntry == isEntryType(order1.type)
        o2IsEntry == isEntryType(order2.type)
    IN IF order1 = NoOrder \/ order2 = NoOrder THEN trade
       ELSE IF o2IsEntry /\ ~o1IsEntry
       THEN [trade EXCEPT !.side = "SHORT",
                          !.entryOrder = order2, !.exitOrder = order1,
                          !.entryPrice = trade.exitPrice,
                          !.exitPrice = trade.entryPrice,
                          !.entryTime = trade.exitTime,
                          !.exitTime = trade.entryTime]
       ELSE IF o1IsEntry /\ ~o2IsEntry
       THEN [trade EXCEPT !.side = IF LowerSide(order1.side) = "sell"
                                   THEN "SHORT" ELSE "LONG"]
       ELSE [trade EXCEPT !.side = IF trade.side = "" THEN "LONG" ELSE trade.side]

EntryIdsOnly(trades) ==
    {trades[i].entryOrderId : i \in 1..Len(trades)} \ {""}

\* the order-ID set rebuilt from entryOrderId, exitOrderId and allOrderIds
RebuildOrderIds(trades) ==
    UNION {{trades[i].entryOrderId, trades[i].exitOrderId}
           \cup Range(trades[i].allOrderIds) : i \in 1..Len(trades)} \ {""}

\* the in-memory database after loadTradeDatabase
loadTradeDatabase(db, st) ==
    CASE st.kind = "db" ->
            LET fixed == [i \in 1..Len(st.trades) |-> FixSide(st.trades[i])]
            IN [trades |-> fixed, orderIds |-> RebuildOrderIds(fixed)]
      [] st.kind \in {"unparsable", "null"} -> EmptyDatabase
      [] OTHER -> db

----------------------------------------------------------------------------
(* FirebaseSync: fingerprint, pushTradeDatabase, pullTradeDatabase *)

\* (t.contract || t.symbol || '').replace(/[^A-Za-z0-9]/g, '')
Alnum(contract) ==
    CASE contract = "ES1!" -> "ES1"
      [] contract = "NQ1!" -> "NQ1"
      [] OTHER             -> contract

fingerprint(t) ==
    <<Alnum(t.contract), t.entryTime, t.exitTime, t.entryPrice, t.exitPrice>>

\* trades.filter(t => first trade with its fingerprint)
RECURSIVE DedupeByFingerprint(_)
DedupeByFingerprint(ts) ==
    IF ts = <<>> THEN <<>>
    ELSE LET r == DedupeByFingerprint(SubSeq(ts, 1, Len(ts) - 1))
             t == ts[Len(ts)]
         IN IF fingerprint(t) \in {fingerprint(r[i]) : i \in 1..Len(r)}
            THEN r ELSE Append(r, t)

\* [entryOrderId, exitOrderId, ...allOrderIds].filter(Boolean)
SyncOrderIds(t) == ({t.entryOrderId, t.exitOrderId} \cup Range(t.allOrderIds)) \ {""}

\* a pull that appends every remote trade
AppendAll(localTrades, remoteTrades) == localTrades \o remoteTrades

\* the loop of pullTradeDatabase over remote.trades
RECURSIVE PullLoop(_, _)
PullLoop(localTrades, remoteTrades) ==
    IF remoteTrades = <<>> THEN localTrades
    ELSE LET trade == Head(remoteTrades)
             localIds == {localTrades[i].id : i \in 1..Len(localTrades)} \ {<<>>}
             localOrderIds == UNION {SyncOrderIds(localTrades[i]) : i \in 1..Len(localTrades)}
             localFps == {fingerprint(localTrades[i]) : i \in 1..Len(localTrades)}
             skip == \/ (trade.id # <<>> /\ trade.id \in localIds)
                     \/ SyncOrderIds(trade) \cap localOrderIds # {}
                     \/ fingerprint(trade) \in localFps
         IN PullLoop(IF skip THEN localTrades ELSE Append(localTrades, trade),
                     Tail(remoteTrades))

----------------------------------------------------------------------------
(* The application as a state machine *)

\* most trades the in-memory or persisted database holds
MaxStore == 2

ES == "CME_MINI:ES1!"

\* the CSV files a user uploads, by name, as the parser returns their orders
Files == {"pair", "partial", "noids", "twins", "overlap", "open", "empty"}

FileOrders(f) ==
    CASE f = "pair" ->
            <<Order("A", ES, "Buy",  "Limit",  1, 10000, 1000, "Filled"),
              Order("B", ES, "Sell", "Market", 1, 10100, 2000, "Filled")>>
      [] f = "partial" ->
            <<Order("C", ES, "Sell", "Limit",  2, 10100, 3000, "Filled"),
              Order("D", ES, "Buy",  "Market", 1, 10000, 4000, "Filled"),
              Order("E", ES, "Buy",  "Market", 1,  9900, 5000, "Filled")>>
      [] f = "noids" ->
            <<Order("", ES, "Buy",  "Limit",  1, 10000, 6000, "Filled"),
              Order("", ES, "Sell", "Market", 1, 10100, 7000, "Filled")>>
      [] f = "twins" ->
            <<Order("G", ES, "Sell", "Market", 1, 10100, 8000, "Filled"),
              Order("H", ES, "Sell", "Market", 1, 10100, 8000, "Filled"),
              Order("I", ES, "Buy",  "Limit",  1, 10000, 9000, "Filled"),
              Order("J", ES, "Buy",  "Limit",  1, 10000, 9000, "Filled")>>
      [] f = "overlap" ->
            <<Order("A", ES, "Buy",  "Limit",  1, 10000, 1000, "Filled"),
              Order("B", ES, "Sell", "Market", 1, 10100, 2000, "Filled"),
              Order("K", ES, "Buy",  "Limit",  1, 10000, 10000, "Filled"),
              Order("L", ES, "Sell", "Market", 1, 10100, 11000, "Filled")>>
      [] f = "open" ->
            <<Order("P", ES, "Buy", "Limit", 1, 10000, 12000, "Filled"),
              Order("Q", ES, "Buy", "Limit", 1, 10000, 13000, "Filled")>>
      [] OTHER -> <<>>

\* the trade ids in existence, which a generated id never repeats
UsedIds ==
    {tradeDatabase.trades[i].id : i \in 1..Len(tradeDatabase.trades)}
    \cup {storage.trades[i].id : i \in 1..Len(storage.trades)}
    \cup {remote.trades[i].id : i \in 1..Len(remote.trades)}

MatcherIdle ==
    /\ mOrders = <<>> /\ validOrders = <<>> /\ mIdx = 1
    /\ positions = NoPositions /\ mTrades = <<>> /\ mPc = "start"
    /\ mSummary = NoSummary

\* the application after construction; localStorage holds whatever an
\* earlier session left under the key
Init ==
    /\ tradeDatabase = EmptyDatabase
    /\ storage \in {Absent} \cup Corrupted
    /\ remote = Absent
    /\ pf = IdlePf
    /\ uploadStats = NoStats
    /\ hist = NoHist
    /\ ui = NoUi
    /\ MatcherIdle

\* a call of mergeTradesWithDatabase with the trades and orders of a file, as
\* autoLoadDefaultCSV makes it for each sample file that has trades
MergeCall(f) ==
    /\ LET orders == FileOrders(f)
           newTrades == processOrders(orders)
           r == mergeTradesWithDatabase(tradeDatabase, newTrades, orders, UsedIds)
       IN /\ newTrades # <<>>
          /\ Len(r.db.trades) <= MaxStore
          /\ tradeDatabase' = r.db
          /\ uploadStats' = r.stats
    /\ hist' = [file |-> f, clear |-> ""]
    /\ UNCHANGED <<storage, remote, pf>>
    /\ UNCHANGED idleVars

\* localStorage after saveTradeDatabase: the serialized trades, or what was
\* there when setItem throws (the error is caught and logged)
saveTradeDatabase(db, st, written) ==
    IF written THEN SavedDb(JsonTrades(db.trades)) ELSE st

\* saveTradeDatabase, localStorage.setItem succeeds
SaveOk ==
    /\ storage' = saveTradeDatabase(tradeDatabase, storage, TRUE)
    /\ UNCHANGED <<tradeDatabase, remote, pf, uploadStats>>
    /\ hist' = [hist EXCEPT !.clear = ""]
    /\ UNCHANGED idleVars

LoadCall ==
    /\ tradeDatabase' = loadTradeDatabase(tradeDatabase, storage)
    /\ hist' = [file |-> IF tradeDatabase' = tradeDatabase THEN hist.file ELSE "",
                 clear |-> ""]
    /\ UNCHANGED <<storage, remote, pf, uploadStats>>
    /\ UNCHANGED idleVars

\* clearTradeDatabase called directly
ClearCall ==
    /\ tradeDatabase' = EmptyDatabase
    /\ storage' = Absent
    /\ hist' = [file |-> "", clear |-> "direct"]
    /\ UNCHANGED <<remote, pf, uploadStats>>
    /\ UNCHANGED idleVars

\* a clear button that empties the in-memory database only
HandleClearMemoryOnly ==
    /\ \E confirmed \in BOOLEAN :
          IF confirmed
          THEN /\ tradeDatabase' = EmptyDatabase
               /\ hist' = [file |-> "", clear |-> "confirmed"]
               /\ UNCHANGED storage
          ELSE /\ hist' = [hist EXCEPT !.clear = "cancelled"]
               /\ UNCHANGED <<tradeDatabase, storage>>
    /\ UNCHANGED <<remote, pf, uploadStats>>
    /\ UNCHANGED idleVars

\* handleClearDatabase: confirm(...), then clearTradeDatabase or nothing
HandleClearDatabase ==
    /\ \E confirmed \in BOOLEAN :
          IF confirmed
          THEN /\ tradeDatabase' = EmptyDatabase
               /\ storage' = Absent
               /\ hist' = [file |-> "", clear |-> "confirmed"]
          ELSE /\ hist' = [hist EXCEPT !.clear = "cancelled"]
               /\ UNCHANGED <<tradeDatabase, storage>>
    /\ UNCHANGED <<remote, pf, uploadStats>>
    /\ UNCHANGED idleVars

BackupContents == Corrupted \cup {SavedDb(<<>>)}

\* importFullBackup: the backup's tradeDatabase string goes into localStorage
\* as it is, then loadTradeDatabase runs
ImportBackup(content) ==
    /\ storage' = content
    /\ tradeDatabase' = loadTradeDatabase(tradeDatabase, content)
    /\ hist' = [file |-> IF tradeDatabase' = tradeDatabase THEN hist.file ELSE "",
                 clear |-> ""]
    /\ UNCHANGED <<remote, pf, uploadStats>>
    /\ UNCHANGED idleVars

----------------------------------------------------------------------------
(* TradleApp.processFile, one action per stretch between two awaits *)

\* processFile has thrown: the error it rethrows to its caller
Thrown(f, message) == [IdlePf EXCEPT !.file = f, !.error = message]

\* validateFile; on success the read is started
PFStart(f) ==
    /\ pf.pc = "idle"
    /\ \/ pf' = [IdlePf EXCEPT !.pc = "reading", !.file = f]
       \/ pf' = Thrown(f, "validation")
    /\ UNCHANGED <<tradeDatabase, storage, remote, uploadStats>>
    /\ hist' = [hist EXCEPT !.clear = ""]
    /\ UNCHANGED idleVars

\* the read settles: content, an error or the 30 s timeout
PFRead ==
    /\ pf.pc = "reading"
    /\ \/ pf' = [pf EXCEPT !.pc = "parsing"]
       \/ pf' = Thrown(pf.file, "File reading timeout (30s)")
    /\ UNCHANGED <<tradeDatabase, storage, remote, uploadStats>>
    /\ hist' = [hist EXCEPT !.clear = ""]
    /\ UNCHANGED idleVars

\* the parse settles (orders, an error or the timeout); with orders the trades
\* are calculated at once, and an empty order list or a matcher error throws
PFParse ==
    /\ pf.pc = "parsing"
    /\ \/ /\ FileOrders(pf.file) # <<>>
          /\ pf' = [pf EXCEPT !.pc = "calculated",
                              !.orders = FileOrders(pf.file),
                              !.trades = processOrders(FileOrders(pf.file))]
       \/ /\ FileOrders(pf.file) = <<>>
          /\ pf' = Thrown(pf.file, "No valid trading orders found in the CSV file")
       \/ pf' = Thrown(pf.file, "CSV parsing timeout (30s)")
       \/ /\ FileOrders(pf.file) # <<>>
          /\ pf' = Thrown(pf.file, "Trade processing error")
    /\ UNCHANGED <<tradeDatabase, storage, remote, uploadStats>>
    /\ hist' = [hist EXCEPT !.clear = ""]
    /\ UNCHANGED idleVars

\* a processFile that persists first and merges afterwards
PFMergePersistsFirst ==
    /\ pf.pc = "calculated"
    /\ IF pf.trades = <<>>
       THEN /\ pf' = Thrown(pf.file, "No valid trades could be matched from the orders")
            /\ UNCHANGED <<tradeDatabase, storage, uploadStats>>
            /\ hist' = [hist EXCEPT !.clear = ""]
       ELSE LET r == mergeTradesWithDatabase(tradeDatabase, pf.trades,
                                             pf.orders, UsedIds)
            IN /\ Len(r.db.trades) <= MaxStore
               /\ \E written \in BOOLEAN :
                     storage' = saveTradeDatabase(tradeDatabase, storage, written)
               /\ tradeDatabase' = r.db
               /\ uploadStats' = r.stats
               /\ pf' = [pf EXCEPT !.pc = "dashboard"]
               /\ hist' = [file |-> pf.file, clear |-> ""]
    /\ UNCHANGED remote
    /\ UNCHANGED idleVars

\* no trades throws; otherwise step 5, mergeTradesWithDatabase, and step 6b,
\* saveTradeDatabase, in one synchronous stretch
PFMerge ==
    /\ pf.pc = "calculated"
    /\ IF pf.trades = <<>>
       THEN /\ pf' = Thrown(pf.file, "No valid trades could be matched from the orders")
            /\ UNCHANGED <<tradeDatabase, storage, uploadStats>>
            /\ hist' = [hist EXCEPT !.clear = ""]
       ELSE LET r == mergeTradesWithDatabase(tradeDatabase, pf.trades,
                                             pf.orders, UsedIds)
            IN /\ Len(r.db.trades) <= MaxStore
               /\ tradeDatabase' = r.db
               /\ uploadStats' = r.stats
               /\ \E written \in BOOLEAN :
                     storage' = saveTradeDatabase(r.db, storage, written)
               /\ pf' = [pf EXCEPT !.pc = "dashboard"]
               /\ hist' = [file |-> pf.file, clear |-> ""]
    /\ UNCHANGED remote
    /\ UNCHANGED idleVars

\* step 7 and after: the dashboard update settles, processFile returns
PFDone ==
    /\ pf.pc = "dashboard"
    /\ pf' = IdlePf
    /\ UNCHANGED <<tradeDatabase, storage, remote, uploadStats>>
    /\ hist' = [hist EXCEPT !.clear = ""]
    /\ UNCHANGED idleVars

Next ==
    \/ \E f \in Files : MergeCall(f)
    \/ SaveOk
    \/ LoadCall
    \/ ClearCall
    \/ HandleClearDatabase
    \/ \E c \in BackupContents : ImportBackup(c)
    \/ \E f \in Files : PFStart(f)
    \/ PFRead
    \/ PFParse
    \/ PFMerge
    \/ PFDone

Spec == Init /\ [][Next]_vars

----------------------------------------------------------------------------
(* The application with the remote sync of the trade database *)

InitSync ==
    /\ tradeDatabase = EmptyDatabase
    /\ storage = Absent
    /\ remote = Absent
    /\ pf = IdlePf
    /\ uploadStats = NoStats
    /\ hist = NoHist
    /\ ui = NoUi
    /\ MatcherIdle

\* pushTradeDatabase up to the PUT: the trades to send, and localStorage
\* rewritten when the fingerprint filter dropped some
PushLocal ==
    /\ storage.kind \in {"db", "nostruct"}
    /\ storage' = IF Len(DedupeByFingerprint(storage.trades)) < Len(storage.trades)
                  THEN SavedDb(DedupeByFingerprint(storage.trades))
                  ELSE storage
    /\ UNCHANGED <<tradeDatabase, pf, uploadStats, hist>>
    /\ UNCHANGED idleVars

\* the PUT succeeds
PushOk ==
    /\ PushLocal
    /\ remote' = SavedDb(DedupeByFingerprint(storage.trades))

\* the PUT fails: caught, the remote copy stays as it was
PushFails ==
    /\ PushLocal
    /\ remote' = remote

\* pullTradeDatabase with remote trades and a readable local database
Pull ==
    /\ remote.kind = "db" /\ remote.trades # <<>>
    /\ storage.kind \in {"absent", "db", "nostruct"}
    /\ LET localTrades == PullLoop(storage.trades, remote.trades)
       IN /\ Len(localTrades) <= MaxStore
          /\ storage' = IF Len(localTrades) > Len(storage.trades)
                        THEN SavedDb(localTrades) ELSE storage
    /\ UNCHANGED <<tradeDatabase, remote, pf, uploadStats, hist>>
    /\ UNCHANGED idleVars

NextSync ==
    \/ \E f \in Files : MergeCall(f)
    \/ SaveOk
    \/ LoadCall
    \/ ClearCall
    \/ PushOk
    \/ PushFails
    \/ Pull

SpecSync == InitSync /\ [][NextSync]_vars

\* C27: in every state of a matcher run the open lots queued for one symbol
\* were all opened by orders of one side.
QueueSideInvariant ==
    \A sym \in AllSymbols :
        \A i, j \in 1..Len(positions[sym]) :
            LowerSide(positions[sym][i].order.side)
                = LowerSide(positions[sym][j].order.side)

\* two lots queued for a symbol, the older one left over by an order that
\* closed the position before it
QueueSideWitness ==
    \E sym \in AllSymbols :
        /\ Len(positions[sym]) >= 2
        /\ \E t \in Range(mTrades) :
              t.exitOrder.orderId = positions[sym][1].order.orderId

\* C28: after each order every lot in every queue has quantity 1 or more: no
\* lot is negative and none stays in its queue with quantity 0.
LotQuantityInvariant ==
    \A sym \in AllSymbols :
        \A i \in 1..Len(positions[sym]) : positions[sym][i].qty >= 1

\* a lot that was closed in part heads its queue, and the lot closed before
\* it is in the queue no more
LotQuantityWitness ==
    \E sym \in AllSymbols :
        /\ positions[sym] # <<>>
        /\ positions[sym][1].qty < positions[sym][1].order.qty
        /\ \E t \in Range(mTrades) :
              t.entryOrder.orderId = positions[sym][1].order.orderId
        /\ \E t \in Range(mTrades) :
              /\ t.entryOrder.symbol = sym
              /\ \A l \in Range(positions[sym]) :
                    l.order.orderId # t.entryOrder.orderId

\* the trades the step that is being taken appends
NewTrades == SubSeq(mTrades', Len(mTrades) + 1, Len(mTrades'))

\* the step handles an order of the side opposite to the open lots of its
\* symbol
ClosingStep ==
    /\ MatchStep
    /\ validOrders[mIdx].status = "Filled"
    /\ positions[validOrders[mIdx].symbol] # <<>>
    /\ LowerSide(positions[validOrders[mIdx].symbol][1].order.side)
          # LowerSide(validOrders[mIdx].side)

\* C29: a closing order larger than the open quantity of its symbol closes
\* every open lot in full and leaves one lot of its own: its side, its fill
\* price, its quantity less the closed quantity.  An order that closes
\* against a lot left by such an order gives a trade with that order as
\* entry, its side and its fill price.
PositionFlip ==
    [][ClosingStep =>
          LET order == validOrders[mIdx]
              pos == positions[order.symbol]
              open == LotSum(pos, Len(pos))
          IN /\ order.qty > open =>
                   /\ Len(NewTrades) = Len(pos)
                   /\ \A j \in 1..Len(pos) :
                         /\ NewTrades[j].entryOrder.orderId = pos[j].order.orderId
                         /\ NewTrades[j].exitOrder.orderId = order.orderId
                         /\ NewTrades[j].quantity = pos[j].qty
                   /\ positions'[order.symbol]
                         = <<[qty |-> order.qty - open, price |-> order.fillPrice,
                              order |-> order]>>
             /\ (\E t \in Range(mTrades) : t.exitOrder.orderId = pos[1].order.orderId) =>
                   /\ NewTrades # <<>>
                   /\ NewTrades[1].entryOrder.orderId = pos[1].order.orderId
                   /\ NewTrades[1].entryPrice = pos[1].order.fillPrice
                   /\ NewTrades[1].quantity = Min(order.qty, pos[1].qty)
                   /\ NewTrades[1].side
                         = IF LowerSide(pos[1].order.side) = "buy" THEN "LONG" ELSE "SHORT"]_vars

\* one order closed two lots and flipped the position, and a later order
\* closed against the lot it left
PositionFlipWitness ==
    \E i, j, k \in 1..Len(mTrades) :
        /\ i < j /\ j < k
        /\ mTrades[i].exitOrder.orderId = mTrades[j].exitOrder.orderId
        /\ mTrades[i].entryOrder.orderId # mTrades[j].entryOrder.orderId
        /\ mTrades[k].entryOrder.orderId = mTrades[j].exitOrder.orderId
        /\ mTrades[k].side # mTrades[j].side
        /\ mTrades[k].entryPrice = mTrades[j].exitPrice

\* the orders of a symbol that meet the precondition
QualifyingOrders(os, sym) == SelectSeq(os, LAMBDA o : Qualifies(o) /\ o.symbol = sym)

\* their quantity on one side
SideQty(os, sym, side) ==
    QtySum(SelectSeq(QualifyingOrders(os, sym), LAMBDA o : LowerSide(o.side) = side))

\* the quantity of the trades of a symbol
TradeQty(ts, sym) ==
    LET sel == TradesOfSymbol(ts, sym)
    IN SeqSum([i \in 1..Len(sel) |-> sel[i].quantity])

\* C30: when the loop is over, for every symbol the quantities of its
\* qualifying orders add up to twice the quantity of its trades plus its open
\* quantity, and the open quantity is |bought - sold| on the side that has
\* more.
QuantityConservation ==
    (mPc = "done") =>
        \A sym \in AllSymbols :
            LET pos == positions[sym]
                open == LotSum(pos, Len(pos))
                bought == SideQty(mOrders, sym, "buy")
                sold == SideQty(mOrders, sym, "sell")
            IN /\ QtySum(QualifyingOrders(mOrders, sym)) = 2 * TradeQty(mTrades, sym) + open
               /\ open = Abs(bought - sold)
               /\ open > 0 =>
                     LowerSide(pos[1].order.side) = IF bought > sold THEN "buy" ELSE "sell"

----------------------------------------------------------------------------
(* Claims about the trade store *)

\* the trades and orders a file hands to mergeTradesWithDatabase
\* the calculated trades of each file, computed once
Batches == [f \in Files |-> processOrders(FileOrders(f))]

Batch(f) == Batches[f]

BatchIds(f, i) == Range(extractTradeOrderIds(Batch(f)[i], FileOrders(f)))

\* this step is a call of mergeTradesWithDatabase with the batch of file f
MergeStepOf(f) ==
    /\ hist'.file = f /\ remote' = remote
    /\ \/ pf' = pf /\ storage' = storage /\ MergeCall(f)
       \/ pf.pc = "calculated" /\ pf.file = f /\ pf.trades # <<>> /\ PFMerge

StoredFingerprints ==
    {fingerprint(tradeDatabase.trades[i]) : i \in 1..Len(tradeDatabase.trades)}

\* C1: merging the batch that was merged last once more adds no trade and
\* leaves the trade list as it is.
IdempotentMerge ==
    [][\A f \in Files :
          (MergeStepOf(f) /\ hist.file = f) =>
              /\ uploadStats'.newTrades = 0
              /\ tradeDatabase'.trades = tradeDatabase.trades]_vars

\* C2: a batch none of whose order IDs the store tracks before the call is
\* added whole: newTrades is the batch size and duplicates is 0.
FreshBatchAllAdded ==
    [][\A f \in Files :
          (/\ MergeStepOf(f)
           /\ \A i \in 1..Len(Batch(f)) : BatchIds(f, i) \cap tradeDatabase.orderIds = {})
          => /\ uploadStats'.newTrades = Len(Batch(f))
             /\ uploadStats'.duplicates = 0]_vars

\* the k-th smallest member of a set of indices
Nth(S, k) == CHOOSE i \in S : Cardinality({j \in S : j < i}) = k - 1

\* a trade without the fields merge sets on it
Bare(t) == [t EXCEPT !.id = <<>>, !.entryOrderId = "", !.exitOrderId = "",
                     !.allOrderIds = <<>>]

\* The duplicate rule, stated on its own: Acc is the set of accepted batch
\* positions when position i is accepted exactly if trade i resolves to no
\* order ID, or to none that the store tracked before the call or that an
\* accepted trade earlier in the batch brought in.
RuleHolds(f) ==
    LET n == Len(Batch(f))
        Tracked(Acc, i) ==
            tradeDatabase.orderIds
            \cup UNION {BatchIds(f, j) : j \in {k \in Acc : k < i}}
        Accepts(Acc) ==
            \A i \in 1..n :
                (i \in Acc) <=> (BatchIds(f, i) = {} \/ BatchIds(f, i) \cap Tracked(Acc, i) = {})
        old == Len(tradeDatabase.trades)
    IN \E Acc \in SUBSET (1..n) :
          /\ Accepts(Acc)
          /\ uploadStats'.newTrades = Cardinality(Acc)
          /\ uploadStats'.duplicates = n - Cardinality(Acc)
          /\ uploadStats'.newTrades + uploadStats'.duplicates = n
          /\ uploadStats'.totalTrades = old + uploadStats'.newTrades
          /\ Len(tradeDatabase'.trades) = uploadStats'.totalTrades
          /\ SubSeq(tradeDatabase'.trades, 1, old) = tradeDatabase.trades
          /\ \A k \in 1..Cardinality(Acc) :
                /\ Bare(tradeDatabase'.trades[old + k]) = Bare(Batch(f)[Nth(Acc, k)])
                /\ Range(tradeDatabase'.trades[old + k].allOrderIds)
                     = BatchIds(f, Nth(Acc, k))
          /\ tradeDatabase'.orderIds =
                tradeDatabase.orderIds \cup UNION {BatchIds(f, j) : j \in Acc}

FingerprintDedup ==
    [][\A f \in Files :
          (/\ MergeStepOf(f)
           /\ \A i \in 1..Len(Batch(f)) :
                 /\ BatchIds(f, i) = {}
                 /\ fingerprint(Batch(f)[i]) \in StoredFingerprints)
          => uploadStats'.newTrades = 0]_vars

StoredIds(ts) == {ts[i].id : i \in 1..Len(ts)}

\* C6: no step other than the clear-all takes a trade out of the in-memory or
\* the persisted database.
MonotonicStore ==
    [][ClearCall \/ (/\ StoredIds(tradeDatabase.trades) \subseteq StoredIds(tradeDatabase'.trades)
                     /\ StoredIds(storage.trades) \subseteq StoredIds(storage'.trades))]_vars

\* what processFile has in memory once its merge has completed
MergedByUpload ==
    mergeTradesWithDatabase(tradeDatabase, pf.trades, pf.orders, UsedIds).db

\* C8: a step of processFile writes localStorage only in the stretch that
\* merges, and then writes the merged database; it changes the in-memory
\* database only by that merge; a step that ends in an error, and every step
\* up to the matching, changes neither.
PipelineOrdering ==
    [][(pf' # pf) =>
          /\ (storage' # storage) =>
                /\ pf.pc = "calculated" /\ pf'.pc = "dashboard"
                /\ tradeDatabase' = MergedByUpload
                /\ storage' = SavedDb(JsonTrades(MergedByUpload.trades))
          /\ (tradeDatabase' # tradeDatabase) =>
                (pf.pc = "calculated" /\ pf'.pc = "dashboard")
          /\ (pf'.error # "") => (tradeDatabase' = tradeDatabase /\ storage' = storage)
          /\ (pf.pc \in {"idle", "reading", "parsing"})
                => (tradeDatabase' = tradeDatabase /\ storage' = storage)]_vars

\* an upload that failed at matching while both databases held trades
PipelineWitness ==
    /\ pf.error = "No valid trades could be matched from the orders"
    /\ Len(tradeDatabase.trades) > 0
    /\ storage.kind = "db" /\ Len(storage.trades) > 0

\* C11: when the write of saveTradeDatabase fails inside an upload, the caller
\* of processFile is told (an error comes back) and the in-memory database
\* holds the whole merged result.
SaveFailureReported ==
    [][(/\ pf.pc = "calculated" /\ pf'.pc = "dashboard"
        /\ storage' # SavedDb(JsonTrades(tradeDatabase'.trades)))
          => /\ tradeDatabase' = MergedByUpload
             /\ pf'.error # ""]_vars

\* the trades the merge step of an upload adds to the database
AddedByUpload == Range(tradeDatabase'.trades) \ Range(tradeDatabase.trades)

\* C20: the id of a trade is built from the orderId of its entry order and the
\* orderId of its exit order alone, matching and pricing the same orders again
\* gives the same ids, and a trade the merge accepts with resolved order IDs
\* is stored under that id.
StableIdentity ==
    [][(pf.pc = "calculated" /\ pf'.pc = "dashboard") =>
          /\ \A t \in Range(pf.trades) :
                t.id = TradeIdOf(t.entryOrder.orderId, t.exitOrder.orderId)
          /\ LET again == processOrders(pf.orders)
             IN /\ Len(again) = Len(pf.trades)
                /\ \A i \in 1..Len(again) : again[i].id = pf.trades[i].id
          /\ \A s \in AddedByUpload :
                (s.allOrderIds # <<>>) =>
                    /\ s.id = TradeIdOf(s.entryOrder.orderId, s.exitOrder.orderId)
                    /\ \E t \in Range(pf.trades) :
                          /\ t.id = s.id
                          /\ t.entryOrder.orderId = s.entryOrder.orderId
                          /\ t.exitOrder.orderId = s.exitOrder.orderId]_vars

\* an upload has stored the round trip of orders A and B as trade_A_B next to
\* a trade of an earlier upload
StableIdentityWitness ==
    /\ pf.pc = "dashboard"
    /\ Len(tradeDatabase.trades) > 1
    /\ \E s \in Range(tradeDatabase.trades) :
          /\ s.id = <<"trade", "A", "B">>
          /\ s.entryOrder.orderId = "A" /\ s.exitOrder.orderId = "B"
          /\ s.allOrderIds = <<"A", "B">>

\* trade.untracked: no object literal of the code has a property that marks a
\* trade as left out of the deduplication, so reading one gives undefined
untracked(trade) == FALSE

\* C21: every trade a merge puts into the store has a non-empty allOrderIds
\* list or is flagged as untracked.
StoreInvariant ==
    [][(pf.pc = "calculated" /\ pf'.pc = "dashboard") =>
          \A s \in AddedByUpload : s.allOrderIds # <<>> \/ untracked(s)]_vars

\* C24: a clear leaves the in-memory database without trades and without
\* order IDs and removes the persisted database, so that loadTradeDatabase
\* then finds nothing and a merge of a batch adds again every trade of it
\* that was stored before; handleClearDatabase does this when the user
\* confirms and changes neither database when the user cancels.
ClearAll ==
    [][/\ (hist'.clear \in {"direct", "confirmed"} /\ (ClearCall \/ HandleClearDatabase))
            => /\ tradeDatabase'.trades = <<>> /\ tradeDatabase'.orderIds = {}
               /\ storage' = Absent
               /\ loadTradeDatabase(tradeDatabase', storage') = tradeDatabase'
               /\ \A f \in Files :
                     LET r == mergeTradesWithDatabase(tradeDatabase', Batch(f),
                                                      FileOrders(f), UsedIds')
                     IN \A s \in Range(tradeDatabase.trades) :
                           (s.allOrderIds # <<>> /\ \E t \in Range(Batch(f)) : t.id = s.id)
                               => \E u \in Range(r.db.trades) : u.id = s.id
       /\ (hist'.clear = "cancelled" /\ HandleClearDatabase)
            => (tradeDatabase' = tradeDatabase /\ storage' = storage)]_vars

\* the user has confirmed the clear of a database whose latest upload had
\* left trades in it
ClearAllWitness ==
    /\ hist.clear = "confirmed"
    /\ uploadStats.totalTrades > 0
    /\ tradeDatabase = EmptyDatabase
    /\ storage = Absent

MergeStats(db, f) ==
    mergeTradesWithDatabase(db, Batch(f), FileOrders(f), UsedIds).stats

\* C9: loading what saveTradeDatabase wrote gives as many trades and the same
\* order-ID set as before, so every batch is classified as without the reload.
RoundTrip ==
    [][(LoadCall /\ storage = SavedDb(JsonTrades(tradeDatabase.trades))) =>
          /\ Len(tradeDatabase'.trades) = Len(tradeDatabase.trades)
          /\ tradeDatabase'.orderIds = tradeDatabase.orderIds
          /\ \A f \in Files : MergeStats(tradeDatabase', f) = MergeStats(tradeDatabase, f)]_vars

\* a database of two trades with four order IDs that came back from storage
RoundTripWitness ==
    /\ Len(tradeDatabase.trades) = 2
    /\ \A i \in 1..2 : tradeDatabase.trades[i].timeRep = "ISO"
    /\ Cardinality(tradeDatabase.orderIds) = 4
    /\ storage.kind = "db"

\* C10: loading a persisted database that is unreadable or has no trades
\* array leaves the in-memory database empty.
CorruptFailsSafe ==
    [][((LoadCall /\ storage \in Corrupted) \/ (\E c \in Corrupted : ImportBackup(c)))
          => tradeDatabase' = EmptyDatabase]_vars

\* the fields of a stored trade the load-time correction may touch
SameTrade(a, b) ==
    /\ a.side = b.side
    /\ a.entryOrder = b.entryOrder /\ a.exitOrder = b.exitOrder
    /\ a.entryPrice = b.entryPrice /\ a.exitPrice = b.exitPrice
    /\ a.entryTime = b.entryTime /\ a.exitTime = b.exitTime

\* the database after it is saved and loaded again
Reloaded(db) == loadTradeDatabase(db, SavedDb(JsonTrades(db.trades)))

\* C25: the trades loadTradeDatabase has just corrected come back from a save
\* and a second load with the same side, entry and exit orders, prices and
\* times.
CorrectionIdempotent ==
    [][(LoadCall /\ storage.kind = "db") =>
          \A i \in 1..Len(tradeDatabase'.trades) :
             SameTrade(Reloaded(tradeDatabase').trades[i], tradeDatabase'.trades[i])]_vars

\* C26: a trade that came from the matcher through a merge (its times are
\* still Dates) and was saved comes back from loadTradeDatabase with the same
\* side, entry and exit orders, prices and times, and its entry is not after
\* its exit.
LoadKeepsMatchedTrades ==
    [][(LoadCall /\ storage = SavedDb(JsonTrades(tradeDatabase.trades))) =>
          \A i \in 1..Len(tradeDatabase.trades) :
             tradeDatabase.trades[i].timeRep = "Date" =>
                /\ SameTrade(tradeDatabase'.trades[i], tradeDatabase.trades[i])
                /\ tradeDatabase'.trades[i].entryTime <= tradeDatabase'.trades[i].exitTime]_vars

----------------------------------------------------------------------------
(* Claims about duplicates in the store *)

\* the order IDs a stored trade carries
AttachedIds(t) == ({t.entryOrderId, t.exitOrderId} \cup Range(t.allOrderIds)) \ {""}

\* no order ID is attached to two stored trades
OrderIdsDisjoint ==
    \A i, j \in 1..Len(tradeDatabase.trades) :
        i # j => AttachedIds(tradeDatabase.trades[i])
                    \cap AttachedIds(tradeDatabase.trades[j]) = {}

\* C31: in the store that merges have built from an empty one no order ID is
\* attached to more than one trade, and no two trades carry the same pair of
\* entry and exit order ID.
NoDuplicateRoundTrips ==
    /\ OrderIdsDisjoint
    /\ \A i, j \in 1..Len(tradeDatabase.trades) :
          i # j => <<tradeDatabase.trades[i].entryOrderId,
                     tradeDatabase.trades[i].exitOrderId>>
                   # <<tradeDatabase.trades[j].entryOrderId,
                       tradeDatabase.trades[j].exitOrderId>>

----------------------------------------------------------------------------
(* Claims about the identity of a trade *)

\* a trade of which only the id is left: no entryOrderId or exitOrderId, no
\* nested orders
IdOnly(t) ==
    [t EXCEPT !.entryOrderId = "", !.exitOrderId = "",
              !.entryOrder = NoOrder, !.exitOrder = NoOrder]

\* C32: from a matched trade that is left with nothing but its id
\* trade_{entryId}_{exitId}, extractTradeOrderIds gets back exactly the two
\* order IDs the id was built from.
IdentityRecovery ==
    \A i \in 1..Len(mTrades) :
        LET t == mTrades[i]
        IN (t.entryOrder.orderId # "" /\ t.exitOrder.orderId # "") =>
              extractTradeOrderIds(IdOnly(t), mOrders)
                 = <<t.entryOrder.orderId, t.exitOrder.orderId>>

\* the same for the order IDs that hold no underscore
IdentityRecoveryPlainIds ==
    \A i \in 1..Len(mTrades) :
        LET t == mTrades[i]
        IN (Len(t.id) = 3 /\ t.entryOrder.orderId # "" /\ t.exitOrder.orderId # "") =>
              extractTradeOrderIds(IdOnly(t), mOrders)
                 = <<t.entryOrder.orderId, t.exitOrder.orderId>>

----------------------------------------------------------------------------
(* The multiplier of a trade with margin and leverage *)

\* the margin cells of the round trips that are priced, in cents: blank,
\* 11.00, 9.00, 44.00, 550.00, 500.00 and a negative amount
MarginCells == {0, 1100, 900, 4400, 55000, 50000, 0 - 1100}

\* the leverage cells: blank, two ratios, a ratio of 0 and a text without digit
LeverageCells == {"", "10:1", "1:20", "0:1", "max"}

\* a symbol with multiplier 1 and one with multiplier 50
MarginSymbols == {"NYSE:XYZ", "CME_MINI:ES1!"}

\* an entry at 100.00 and an exit at 101.00; the margin and leverage cells are
\* filled on the entry order or on the exit order
MarginOrders(sym, side, qty, exitQty, cents, leverage, onEntry) ==
    LET entry == Order("m1", sym, side, "Market", qty, 10000, 1000, "Filled")
        exit  == Order("m2", sym, IF side = "Buy" THEN "Sell" ELSE "Buy",
                       "Market", exitQty, 10100, 2000, "Filled")
    IN IF onEntry
       THEN <<WithMargin(entry, cents, leverage), exit>>
       ELSE <<entry, WithMargin(exit, cents, leverage)>>

InitMargin ==
    /\ \E sym \in MarginSymbols, side \in Sides, qty \in 1..MaxQty,
          exitQty \in 1..MaxQty, cents \in MarginCells,
          leverage \in LeverageCells, onEntry \in BOOLEAN :
          mOrders = MarginOrders(sym, side, qty, exitQty, cents, leverage, onEntry)
    /\ validOrders = <<>>
    /\ mIdx = 1
    /\ positions = NoPositions
    /\ mTrades = <<>>
    /\ mPc = "start"
    /\ mSummary = NoSummary
    /\ AppIdle

SpecMargin == InitMargin /\ [][NextMatch]_vars

\* margin x L / (referenceQuantity x entryPrice)
DerivedMultiplier(t) ==
    Frac(t.margin * LevVal(t.leverage), t.entryOrder.originalQty * t.entryPrice)

\* the deviation of the derived multiplier from the registry multiplier is
\* above, or exactly, one tenth of the registry multiplier
DeviatesMore(t) ==
    DiffersExactly(DerivedMultiplier(t), getContractSpecs(t.contract).multiplier)

DeviatesOneTenth(t) ==
    LET d == DerivedMultiplier(t)
        m == getContractSpecs(t.contract).multiplier
    IN Abs(d.num - m * d.den) * 10 = m * d.den

\* grossProfit was computed with the multiplier m
PricedWith(t, m) == t.grossProfit = Frac(t.pointDifference * t.quantity * m.num, m.den)

\* C33: a priced trade with margin > 0 and a leverage ratio L is priced with
\* derived = margin x L / (referenceQuantity x entryPrice) if
\* |derived - registry multiplier| / registry multiplier > 0.10 and with the
\* registry multiplier otherwise; a trade without margin or leverage is priced
\* with the registry multiplier.
MultiplierThreshold ==
    (mPc = "calculated") =>
        \A t \in Range(mTrades) :
            LET registry == Frac(getContractSpecs(t.contract).multiplier, 1)
            IN IF t.margin > 0 /\ LevVal(t.leverage) > 0
               THEN IF DeviatesMore(t)
                    THEN PricedWith(t, DerivedMultiplier(t))
                    ELSE PricedWith(t, registry)
               ELSE PricedWith(t, registry)

\* the same away from a deviation of exactly one tenth
MultiplierThresholdOffBoundary ==
    (mPc = "calculated") =>
        \A t \in Range(mTrades) :
            LET registry == Frac(getContractSpecs(t.contract).multiplier, 1)
            IN IF t.margin > 0 /\ LevVal(t.leverage) > 0
               THEN \/ DeviatesOneTenth(t)
                    \/ IF DeviatesMore(t)
                       THEN PricedWith(t, DerivedMultiplier(t))
                       ELSE PricedWith(t, registry)
               ELSE PricedWith(t, registry)

----------------------------------------------------------------------------
(* Claims about the statistics of a summary *)

\* S_i: the running sum of the net profits after the first i trades, S_0 = 0
RunningSum(ts, i) == NetSum(SubSeq(ts, 1, i))

\* the declines S_i - S_j for first <= i <= j <= n
Declines(ts, first) ==
    {FracSub(RunningSum(ts, p[1]), RunningSum(ts, p[2])) :
        p \in {q \in (first..Len(ts)) \X (first..Len(ts)) : q[1] <= q[2]}}

\* the largest of them
MaxDecline(ts, first) ==
    CHOOSE d \in Declines(ts, first) :
        \A e \in Declines(ts, first) : ~FracLess(d, e)

\* C34: maxDrawdown is never negative and is the largest peak-to-trough
\* decline of the running sum of the net profits, the sum before the first
\* trade, S_0 = 0, counted among the peaks: the maximum of S_i - S_j over
\* 0 <= i <= j <= n.
DrawdownFromStart ==
    (mPc = "summarized" /\ mTrades # <<>>) =>
        /\ ~FracLess(mSummary.maxDrawdown, Zero)
        /\ mSummary.maxDrawdown = MaxDecline(mTrades, 0)

\* C34 as stated: the maximum of S_i - S_j over 1 <= i <= j <= n
DrawdownAmongRunningSums ==
    (mPc = "summarized" /\ mTrades # <<>>) =>
        /\ ~FracLess(mSummary.maxDrawdown, Zero)
        /\ mSummary.maxDrawdown = MaxDecline(mTrades, 1)

\* a summary whose drawdown is a decline from a peak that trades have built
\* up to a later trough, and is larger than any decline from the start
DrawdownWitness ==
    /\ mPc = "summarized"
    /\ Len(mTrades) >= 3
    /\ FracLess(Zero, mSummary.maxDrawdown)
    /\ \E i \in 1..Len(mTrades), j \in 1..Len(mTrades) :
          /\ i < j
          /\ FracLess(Zero, RunningSum(mTrades, i))
          /\ mSummary.maxDrawdown
                = FracSub(RunningSum(mTrades, i), RunningSum(mTrades, j))

----------------------------------------------------------------------------
(* The statistics of a store that several files have built *)

\* number of trades in a store built from the files below
MaxImports == 3

\* four files of one round trip each, on ES1!: a win, then a loss, then a win,
\* then a loss, in the order of their times
StatFiles == {"win1", "loss2", "win3", "loss4"}

StatOrders(f) ==
    CASE f = "win1" ->
            <<Order("S1", ES, "Buy",  "Limit",  1, 10000, 1000, "Filled"),
              Order("S2", ES, "Sell", "Market", 1, 10100, 2000, "Filled")>>
      [] f = "loss2" ->
            <<Order("S3", ES, "Buy",  "Limit",  1, 10100, 3000, "Filled"),
              Order("S4", ES, "Sell", "Market", 1, 10000, 4000, "Filled")>>
      [] f = "win3" ->
            <<Order("S5", ES, "Buy",  "Limit",  1, 10000, 5000, "Filled"),
              Order("S6", ES, "Sell", "Market", 1, 10100, 6000, "Filled")>>
      [] OTHER ->
            <<Order("S7", ES, "Buy",  "Limit",  1, 10100, 7000, "Filled"),
              Order("S8", ES, "Sell", "Market", 1, 10000, 8000, "Filled")>>

\* a call of mergeTradesWithDatabase with the trades and orders of one of them
MergeStatFile(f) ==
    /\ LET orders == StatOrders(f)
           newTrades == processOrders(orders)
           r == mergeTradesWithDatabase(tradeDatabase, newTrades, orders, UsedIds)
       IN /\ newTrades # <<>>
          /\ Len(r.db.trades) <= MaxImports
          /\ tradeDatabase' = r.db
          /\ uploadStats' = r.stats
    /\ hist' = [file |-> f, clear |-> ""]
    /\ UNCHANGED <<storage, remote, pf>>
    /\ UNCHANGED idleVars

NextStats ==
    \/ \E f \in StatFiles : MergeStatFile(f)
    \/ SaveOk
    \/ LoadCall

SpecStats == Init /\ [][NextStats]_vars

\* the trades in the order of their entry times
RECURSIVE InsertByTime(_, _)
InsertByTime(t, sorted) ==
    IF sorted = <<>> THEN <<t>>
    ELSE IF Head(sorted).entryTime <= t.entryTime
         THEN <<Head(sorted)>> \o InsertByTime(t, Tail(sorted))
         ELSE <<t>> \o sorted

RECURSIVE Chronological(_)
Chronological(ts) ==
    IF ts = <<>> THEN <<>>
    ELSE InsertByTime(ts[Len(ts)], Chronological(SubSeq(ts, 1, Len(ts) - 1)))

\* C35: the consecutiveWins and consecutiveLosses of the summary of the store
\* are the longest runs of wins and of losses of the stored trades taken in
\* chronological order, whatever the order of the imports.
ChronologicalStreaks ==
    LET reported == generateSummary(tradeDatabase.trades)
        inOrder  == Chronological(tradeDatabase.trades)
    IN /\ reported.consecutiveWins = getMaxConsecutive(inOrder, TRUE)
       /\ reported.consecutiveLosses = getMaxConsecutive(inOrder, FALSE)

----------------------------------------------------------------------------
(* Claims about the sync of the trade database *)

\* the ids of the persisted trades that the remote database holds as well:
\* what pullTradeDatabase has merged, or would find merged
PulledIds == StoredIds(storage.trades) \cap StoredIds(remote.trades)

\* saveTradeDatabase at the end of an upload: the in-memory database is the
\* result of the merge of a file
UploadSave == SaveOk /\ hist.file # ""

\* C36: a remote trade that is in the persisted database is still there after
\* every later upload (merge, then save) and every later pull.
NoLostUpdate ==
    [][(UploadSave \/ Pull \/ \E f \in Files : MergeCall(f))
          => PulledIds \subseteq StoredIds(storage'.trades)]_vars

\* the pairs of entry and exit order ID of a trade list
OrderIdPairs(ts) == {<<ts[i].entryOrderId, ts[i].exitOrderId>> : i \in 1..Len(ts)}

\* C37: neither the cleanup of pushTradeDatabase nor pullTradeDatabase
\* collapses persisted trades with different entry/exit order-ID pairs into
\* one: every pair that is persisted before the step is persisted after it.
DedupDiscardsOnlyDuplicates ==
    [][(PushOk \/ PushFails \/ Pull)
          => OrderIdPairs(storage.trades) \subseteq OrderIdPairs(storage'.trades)]_vars

\* the same for pullTradeDatabase alone
PullKeepsPairs ==
    [][Pull => OrderIdPairs(storage.trades) \subseteq OrderIdPairs(storage'.trades)]_vars

\* merged: the number of trades a pull of remoteTrades adds to localTrades
Merged(localTrades, remoteTrades) ==
    Len(PullLoop(localTrades, remoteTrades)) - Len(localTrades)

\* C38: pullTradeDatabase leaves every persisted trade in its place and as it
\* is, and a second pull of the same remote database merges 0 trades and
\* leaves the persisted database as the first pull left it.
PullIdempotent ==
    [][Pull =>
          /\ Len(storage'.trades) >= Len(storage.trades)
          /\ SubSeq(storage'.trades, 1, Len(storage.trades)) = storage.trades
          /\ Merged(storage'.trades, remote.trades) = 0
          /\ PullLoop(storage'.trades, remote.trades) = storage'.trades]_vars

\* a pull has added a remote trade behind a local trade that the remote
\* database does not hold
PullWitness ==
    \E i, j \in 1..Len(storage.trades) :
        /\ i < j
        /\ storage.trades[i].id \notin StoredIds(remote.trades)
        /\ storage.trades[j].id \in StoredIds(remote.trades)
        /\ storage.trades[j].id \notin StoredIds(tradeDatabase.trades)

----------------------------------------------------------------------------
(* TradleApp.initialize: a start of the application *)

\* what a merged sample file leaves: the merged database, the statistics of
\* the merge and the name of the file
AutoLoaded(r, f) ==
    [db |-> r.db, stats |-> r.stats, file |-> f, anyLoaded |-> TRUE]

\* one pass of the loop of autoLoadDefaultCSV: the sample file is skipped
\* when it has no orders or no trades, and merged otherwise
AutoLoadTrades(acc, f, orders, newTrades, used) ==
    IF orders = <<>> \/ newTrades = <<>> THEN acc
    ELSE AutoLoaded(mergeTradesWithDatabase(acc.db, newTrades, orders,
                                            used \cup StoredIds(acc.db.trades)), f)

AutoLoadStep(acc, f, used) == AutoLoadTrades(acc, f, FileOrders(f), Batch(f), used)

\* the loop of autoLoadDefaultCSV over the sample files, in their order
RECURSIVE AutoLoadLoop(_, _, _)
AutoLoadLoop(acc, files, used) ==
    IF files = <<>> THEN acc
    ELSE AutoLoadLoop(AutoLoadStep(acc, Head(files), used), Tail(files), used)

\* what a start leaves: saveTradeDatabase runs when a sample file was loaded
StartOutcome(second, st, written) ==
    [db |-> second.db, stats |-> second.stats, file |-> second.file,
     storage |-> IF second.anyLoaded
                 THEN saveTradeDatabase(second.db, st, written) ELSE st]

\* loadTradeDatabase into the fresh in-memory database, autoLoadDefaultCSV
\* over the sample files d1 and d2, and saveTradeDatabase when one was loaded
StartResult(st, d1, d2, written, used) ==
    StartOutcome(AutoLoadLoop([db |-> loadTradeDatabase(EmptyDatabase, st),
                               stats |-> NoStats, file |-> "",
                               anyLoaded |-> FALSE],
                              <<d1, d2>>, used),
                 st, written)

\* the page is loaded with the sample files d1 and d2 in place
initialize(d1, d2, written) ==
    /\ \E r \in {StartResult(storage, d1, d2, written, UsedIds)} :
          /\ Len(r.db.trades) <= MaxStore
          /\ tradeDatabase' = r.db
          /\ storage' = r.storage
          /\ uploadStats' = r.stats
          /\ hist' = [file |-> r.file, clear |-> ""]
    /\ pf' = IdlePf
    /\ UNCHANGED remote
    /\ UNCHANGED idleVars

NextStart ==
    \/ \E d1, d2 \in Files, written \in BOOLEAN : initialize(d1, d2, written)
    \/ ClearCall

SpecStart == Init /\ [][NextStart]_vars

\* the number of trades after one more start with the same sample files
AfterRestart(d1, d2, written) ==
    Len(StartResult(storage', d1, d2, written, UsedIds').db.trades)

\* C39: a start of the application with the same default CSV files as the
\* start before it, and no upload in between, ends with as many trades in the
\* store as that start did.
RestartStability ==
    [][\A d1, d2 \in Files :
          (\E written \in BOOLEAN : initialize(d1, d2, written))
             => \A written \in BOOLEAN :
                   AfterRestart(d1, d2, written) = Len(tradeDatabase'.trades)]_vars

\* the same for sample files in which every order has an order ID
RestartStabilityWithIds ==
    [][\A d1, d2 \in Files \ {"noids"} :
          (\E written \in BOOLEAN : initialize(d1, d2, written))
             => \A written \in BOOLEAN :
                   AfterRestart(d1, d2, written) = Len(tradeDatabase'.trades)]_vars

----------------------------------------------------------------------------
(* The UIController: the trade list of the dashboard and the tabs *)

Tabs == {"dashboard", "import", "export"}

\* updateDashboard(trades, summary): this.currentTrades = trades, the array
\* it is handed and no copy of it
updateDashboard(u, trades) == [u EXCEPT !.currentTrades = trades, !.shared = TRUE]

\* the page is loaded with no sample files in place; which tab the markup
\* shows first is open
InitUi ==
    /\ tradeDatabase = EmptyDatabase
    /\ storage = Absent
    /\ remote = Absent
    /\ pf = IdlePf
    /\ uploadStats = NoStats
    /\ hist = NoHist
    /\ \E tab \in Tabs : ui = [NoUi EXCEPT !.tab = tab]
    /\ MatcherIdle

\* processFile from step 5 on, for a file that has trades: the merge, the
\* save and the call of updateDashboard with this.tradeDatabase.trades run in
\* one synchronous stretch
Upload(f) ==
    /\ LET newTrades == Batch(f)
           r == mergeTradesWithDatabase(tradeDatabase, newTrades, FileOrders(f),
                                        UsedIds)
       IN /\ newTrades # <<>>
          /\ Len(r.db.trades) <= MaxStore
          /\ tradeDatabase' = r.db
          /\ uploadStats' = r.stats
          /\ \E written \in BOOLEAN :
                storage' = saveTradeDatabase(r.db, storage, written)
          /\ ui' = updateDashboard(ui, r.db.trades)
    /\ hist' = [file |-> f, clear |-> ""]
    /\ UNCHANGED <<remote, pf>>
    /\ UNCHANGED matchVars

\* clearTradeDatabase: this.tradeDatabase becomes a new object with a new
\* array, the key is removed, the dashboard is hidden; currentTrades is not
\* assigned and keeps the array it has
clearTradeDatabase ==
    /\ tradeDatabase' = EmptyDatabase
    /\ storage' = Absent
    /\ ui' = [ui EXCEPT !.shared = FALSE]
    /\ hist' = [file |-> "", clear |-> "direct"]
    /\ UNCHANGED <<remote, pf, uploadStats>>
    /\ UNCHANGED matchVars

\* the page is loaded again: a new UIController, loadTradeDatabase,
\* autoLoadDefaultCSV that finds no sample file and so neither merges nor
\* saves, and updateDashboard when the database has trades
Reload ==
    /\ LET db == loadTradeDatabase(EmptyDatabase, storage)
       IN /\ tradeDatabase' = db
          /\ UNCHANGED storage
          /\ \E tab \in Tabs :
                ui' = IF Len(db.trades) > 0
                      THEN updateDashboard([NoUi EXCEPT !.tab = tab], db.trades)
                      ELSE [NoUi EXCEPT !.tab = tab]
    /\ pf' = IdlePf
    /\ uploadStats' = NoStats
    /\ hist' = NoHist
    /\ UNCHANGED remote
    /\ UNCHANGED matchVars

\* switchTab(tabName): classes and visibility of the sections
switchTab(tabName) ==
    /\ ui' = [ui EXCEPT !.tab = tabName]
    /\ UNCHANGED <<tradeDatabase, storage, remote, pf, uploadStats, hist>>
    /\ UNCHANGED matchVars

NextUi ==
    \/ \E f \in Files : Upload(f)
    \/ clearTradeDatabase
    \/ Reload
    \/ \E tabName \in Tabs : switchTab(tabName)

SpecUi == InitUi /\ [][NextUi]_vars

\* C40: switchTab changes neither the in-memory nor the persisted trade
\* database, and after a switch to the dashboard the trade list of the UI has
\* as many trades as the store.
TabNavigation ==
    [][\A tabName \in Tabs :
          switchTab(tabName) =>
             /\ tradeDatabase' = tradeDatabase
             /\ storage' = storage
             /\ tabName = "dashboard" =>
                   Len(ui'.currentTrades) = Len(tradeDatabase'.trades)]_vars

\* the first half alone, and the second half while the list of the UI is
\* the array of the store
TabNavigationKeepsData ==
    [][\A tabName \in Tabs :
          switchTab(tabName) =>
             /\ tradeDatabase' = tradeDatabase
             /\ storage' = storage
             /\ ui'.currentTrades = ui.currentTrades
             /\ (tabName = "dashboard" /\ ui.shared) =>
                   Len(ui'.currentTrades) = Len(tradeDatabase'.trades)]_vars

====
